---- MODULE Spec2Model ----
(***************************************************************************)
(* State-machine model of yande_viewer's core services:                    *)
(*   - core/download_manager.py  DownloadManager, CancellationToken        *)
(*   - core/event_bus.py         EventBus, SubscriptionToken               *)
(*   - core/cache.py             LRUCache, MemoryAwareLRUCache             *)
(*   - utils/helpers.py          atomic_write, safe_json_load/save         *)
(* Each component has its own specification over its own variables; the    *)
(* variables of the other components stay at their initial values.         *)
(***************************************************************************)
EXTENDS Integers, Sequences, FiniteSets, TLC

(***************************************************************************)
(* Bounds of the model and program constants.                              *)
(***************************************************************************)
MaxTasks == 2
MaxResumes == 1
MaxWorkers == 2
MaxRetries == 3

\* The post_ids submitted.
Posts == {1, 2}

VARIABLES
    \* ---- DownloadManager ----
    tasks,             \* every DownloadTask ever created, in creation order
    active_downloads,  \* DownloadManager.active_downloads
    taskOf,            \* DownloadManager._tasks: post_id -> task (0 = absent)
    pending_count,     \* DownloadManager.pending_count
    resuming_count,    \* DownloadManager.resuming_count
    failed_downloads,  \* DownloadManager.failed_downloads
    workQueue,         \* jobs waiting in the ThreadPoolExecutor
    executorDown,      \* the executor has been shut down
    shutdownPc,        \* position of a shutdown() call
    resumes,           \* do_resume jobs created by submit_resume
    events,            \* per post_id, the lifecycle events published on EVENT_BUS
    ret                \* what the latest submit_download call returns

dmVars == <<tasks, active_downloads, taskOf, pending_count, resuming_count,
            failed_downloads, workQueue, executorDown, shutdownPc, resumes,
            events, ret>>

VARIABLES
    \* ---- EventBus ----
    tokens,            \* every SubscriptionToken created, in creation order
    subscribers,       \* EventBus._subscribers: kind -> token ids, in order
    owner_tokens,      \* EventBus._owner_tokens: owner -> set of token ids
    stats,             \* EventBus._stats
    pubs,              \* the publish calls, each with its snapshot
    disposed,          \* tokens on which a dispose() call has returned
    lateCalls,         \* tokens whose handler was invoked after that
    lastUnsub          \* the unsubscribe_all call that has just returned

busVars == <<tokens, subscribers, owner_tokens, stats, pubs, disposed,
             lateCalls, lastUnsub>>

VARIABLES
    \* ---- LRUCache / MemoryAwareLRUCache ----
    cache,             \* LRUCache._cache: the keys, least recently used first
    maxsize,           \* LRUCache._maxsize
    loading,           \* per thread, the key whose loader get_or_load runs
    lastTouched,       \* the cached keys by their last touch, a get_or_load
                       \* that returns the cached value being a touch
    lastCounted,       \* the same, a get_or_load counting as a touch only
                       \* when its first lookup hits
    lruTouched,        \* every eviction so far took the head of lastTouched
    lruCounted,        \* every eviction so far took the head of lastCounted
    lastEvicted,       \* the keys the latest eviction loop popped
    max_memory,        \* MemoryAwareLRUCache._max_memory
    current_memory,    \* MemoryAwareLRUCache._current_memory
    item_sizes,        \* MemoryAwareLRUCache._item_sizes (0 = no entry)
    lastPut            \* the key and size of the latest put

cacheVars == <<cache, maxsize, loading, lastTouched, lastCounted, lruTouched,
               lruCounted, lastEvicted, max_memory, current_memory, item_sizes, lastPut>>

VARIABLES
    platform,          \* sys.platform of the process: "posix" or "win32"
    dst,               \* what the target file holds (Absent = no file)
    tmp,               \* what the sibling temp file holds
    storePc,           \* where the thread using the store is
    attempt,           \* _safe_replace's loop variable
    content,           \* the text safe_json_save hands to atomic_write
    prior,             \* what the target held when atomic_write was entered
    awOutcome,         \* how the latest atomic_write ended
    lockHolder,        \* who holds the lock of the path
    saveData,          \* the value safe_json_save was called with
    saveRet,           \* what the latest safe_json_save returned
    lastSaved,         \* the value of the latest save, if it returned True
    loadDefault,       \* the default safe_json_load was called with
    loadRet,           \* what the latest safe_json_load returned
    loadTimedOut       \* the latest load gave up waiting for the lock

storeVars == <<platform, dst, tmp, storePc, attempt, content, prior, awOutcome,
               lockHolder, saveData, saveRet, lastSaved, loadDefault, loadRet,
               loadTimedOut>>

VARIABLES
    queue,             \* TurboPreloader._queue, the heap as heapq lays it out
    pending,           \* the keys of TurboPreloader._pending
    in_progress,       \* TurboPreloader._in_progress
    retry_counts,      \* TurboPreloader._retry_counts (0 = no entry)
    total_skipped,     \* TurboPreloader._stats["total_skipped"]
    cached,            \* the post ids the preloader's LRU cache holds
    execQueue,         \* the jobs submitted to the pool and not yet started
    loadSt,            \* per post, where the worker running _load_one is
    retryThreads,      \* per post, the delayed_retry threads still asleep
    onFailedCalls,     \* per post, how often on_failed was invoked for it
    calls,             \* how many preload_* calls were made
    dispatched,        \* the posts the scheduler popped since the call
                       \* that promoted records, in order
    owed,              \* posts passed to preload_immediate uncached and
                       \* neither cached nor reported failed since
    promoted,          \* the latest preload_immediate of a post waiting in
                       \* the heap at PREFETCH: the post and its rivals
    shutdown,          \* TurboPreloader._shutdown is set
    stopped,           \* the posts whose fetch a cancel(post_id) or the
                       \* shutdown found running, until their worker ends
    revoked            \* the posts cancel(post_id) or clear_pending was
                       \* called for and no preload_* call has named since

preVars == <<queue, pending, in_progress, retry_counts, total_skipped, cached,
             execQueue, loadSt, retryThreads, onFailedCalls, calls,
             dispatched, owed, promoted, shutdown, stopped,
             revoked>>

VARIABLES
    dlPc,              \* where the worker running _execute_download is
    dlAttempt,         \* _do_download's loop variable attempt
    tmp_path,          \* the file at tmp_path
    path,              \* the file at path
    context,           \* _do_download's context dict, the fields used
    resp,              \* the chunks iter_content has yet to yield
    bytes_written,     \* _write_chunks' bytes_written
    cancel_token,      \* task.cancel_token.is_cancelled
    dlSuccess,         \* the success argument of _finish_download
    published,         \* the terminal events published for the task
    requestsSent,      \* how many GETs the task has sent
    lastRequest,       \* the Range offset of the last GET, and the tmp size
    leftover,          \* what the last failed attempt left, and the answer
    completedBy,       \* which branch renamed tmp to final
    guardFailed,       \* the first failure of the disk-space guard
    cancelSeen,        \* the first check that found the token set
    file_url,          \* the kind of post["file_url"]
    registered,        \* the task is in active_downloads and _tasks
    on_error_calls,    \* how often task.on_error was invoked
    expected,          \* the total sizes the attempts computed
    redirectsFollowed, \* how many redirects requests followed
    retry_delay,       \* CONFIG.download.retry_delay, in milliseconds
    waits              \* the waits before each further attempt, in ms

dlVars == <<dlPc, dlAttempt, tmp_path, path, context, resp, bytes_written,
            cancel_token, dlSuccess, published, requestsSent, lastRequest,
            leftover, completedBy, guardFailed, cancelSeen, file_url,
            registered, on_error_calls, expected, redirectsFollowed,
            retry_delay, waits>>

VARIABLES
    \* ---- DownloadManager._tasks and the tokens, for the cancel calls ----
    tokenOf,           \* per post_id: its task's token in _tasks, or NoTask
    lastCancel         \* the last cancel call: what it returned and changed

ctVars == <<tokenOf, lastCancel>>

VARIABLES
    \* ---- SessionManager ----
    closed,            \* SessionManager._closed
    sessionLock,       \* the thread inside `with self._lock`, or "-"
    callPc,            \* per calling thread: where it is in which method
    sessionCloses,     \* how many times _session.close() was called
    closeReturned,     \* a close() call has returned
    ranAfterClose      \* methods whose locked part ran after that

smVars == <<closed, sessionLock, callPc, sessionCloses, closeReturned, ranAfterClose>>

VARIABLES
    \* ---- UrlValidator ----
    url,               \* the argument of validate, as urlparse splits it
    dns,               \* what getaddrinfo answers for the host
    verdict            \* what validate did: "True", "False", an exception

uvVars == <<url, dns, verdict>>

VARIABLES
    \* ---- The preloader's heap, task by task ----
    schedQueue,        \* TurboPreloader._queue, each task with created_at
    created,           \* how many PreloadTasks were made
    lastPop            \* the task the scheduler popped last and the tasks
                       \* it left in the heap

sqVars == <<schedQueue, created, lastPop>>

VARIABLES
    \* ---- The files of one post under base_dir ----
    finals,            \* the final files of the post that exist
    tmps,              \* the .tmp files of the post that exist
    target             \* the path of the task running for the post

fpVars == <<finals, tmps, target>>

VARIABLES
    \* ---- The DownloadManager's lock and the code it calls out to ----
    dmLock,            \* who holds DownloadManager._lock ("free": nobody)
    frames,            \* per thread, its calls into the manager, innermost
                       \* last, each with the next operation of its body
    lkCalls            \* per thread, how many calls it has started

lkVars == <<dmLock, frames, lkCalls>>

VARIABLES
    cacheItems,    \* self._cache.items() of a cache of closable values, oldest first
    itemsMaxsize,  \* its self._maxsize
    closedTimes,   \* how many times close() has been called on each value object
    evictedVals,   \* the value objects that popitem(last=False) has returned
    callers,       \* the get_or_load call of each thread
    nextVal        \* the next value object a put or a loader produces

valVars == <<cacheItems, itemsMaxsize, closedTimes, evictedVals, callers, nextVal>>

VARIABLES
    favorites,       \* the keys of MainWindow.favorites
    downloaded_ids,  \* MainWindow.downloaded_ids
    finalFiles,      \* the posts that have a final file under base_dir
    tmpFiles,        \* the posts that have a .tmp partial under base_dir
    favActive,       \* the posts that have a download task queued or running
    favResuming,     \* the posts that have a do_resume job queued or running
    startup          \* "init", "resumed" once _resume_tmp_downloads has run, "recovered" once _recover_missing_favorites has

favVars == <<favorites, downloaded_ids, finalFiles, tmpFiles, favActive, favResuming, startup>>

VARIABLES
    stateFiles,    \* the content of base_path/<filename> for each key, "absent" if there is none
    snapshots,     \* the content of backup_temp/<key>_<timestamp>.bak written by the restore that runs
    backupData,    \* backup["data"] of the restore that runs: the content for each key it holds
    restored,      \* the keys whose state file the restore that runs has written
    restorePc,     \* "idle", "backup_current", "restoring"
    fileIndex      \* the index in BACKUP_FILES of the next file to restore

restoreVars == <<stateFiles, snapshots, backupData, restored, restorePc, fileIndex>>

nonDmVars == <<busVars, cacheVars, storeVars, preVars, dlVars, ctVars, smVars, uvVars, sqVars, fpVars, lkVars, valVars, favVars, restoreVars>>
nonBusVars == <<dmVars, cacheVars, storeVars, preVars, dlVars, ctVars, smVars, uvVars, sqVars, fpVars, lkVars, valVars, favVars, restoreVars>>
nonCacheVars == <<dmVars, busVars, storeVars, preVars, dlVars, ctVars, smVars, uvVars, sqVars, fpVars, lkVars, valVars, favVars, restoreVars>>
nonStoreVars == <<dmVars, busVars, cacheVars, preVars, dlVars, ctVars, smVars, uvVars, sqVars, fpVars, lkVars, valVars, favVars, restoreVars>>
nonPreVars == <<dmVars, busVars, cacheVars, storeVars, dlVars, ctVars, smVars, uvVars, sqVars, fpVars, lkVars, valVars, favVars, restoreVars>>
nonDlVars == <<dmVars, busVars, cacheVars, storeVars, preVars, ctVars, smVars, uvVars, sqVars, fpVars, lkVars, valVars, favVars, restoreVars>>

nonCtVars == <<dmVars, busVars, cacheVars, storeVars, preVars, dlVars, smVars, uvVars, sqVars, fpVars, lkVars, valVars, favVars, restoreVars>>

nonSmVars == <<dmVars, busVars, cacheVars, storeVars, preVars, dlVars, ctVars, uvVars, sqVars, fpVars, lkVars, valVars, favVars, restoreVars>>

nonUvVars == <<dmVars, busVars, cacheVars, storeVars, preVars, dlVars, ctVars, smVars, sqVars, fpVars, lkVars, valVars, favVars, restoreVars>>

nonSqVars == <<dmVars, busVars, cacheVars, storeVars, preVars, dlVars, ctVars, smVars, uvVars, fpVars, lkVars, valVars, favVars, restoreVars>>

nonFpVars == <<dmVars, busVars, cacheVars, storeVars, preVars, dlVars, ctVars, smVars, uvVars, sqVars, lkVars, valVars, favVars, restoreVars>>

nonLkVars == <<dmVars, busVars, cacheVars, storeVars, preVars, dlVars, ctVars, smVars, uvVars, sqVars, fpVars, valVars, favVars, restoreVars>>

nonValVars == <<dmVars, busVars, cacheVars, storeVars, preVars, dlVars, ctVars, smVars, uvVars, sqVars, fpVars, lkVars, favVars, restoreVars>>

nonFavVars == <<dmVars, busVars, cacheVars, storeVars, preVars, dlVars, ctVars, smVars, uvVars, sqVars, fpVars, lkVars, valVars, restoreVars>>

nonRestoreVars == <<dmVars, busVars, cacheVars, storeVars, preVars, dlVars, ctVars, smVars, uvVars, sqVars, fpVars, lkVars, valVars, favVars>>

vars == <<dmVars, busVars, cacheVars, storeVars, preVars, dlVars, ctVars, smVars, uvVars, sqVars, fpVars, lkVars, valVars, favVars, restoreVars>>

(***************************************************************************)
(* DownloadManager                                                         *)
(***************************************************************************)
Max(a, b) == IF a >= b THEN a ELSE b

TaskIds == 1..Len(tasks)

\* A task is in the active map from its registration until the locked part
\* of _finish_download has run.
PreFinish == {"registered", "queued", "rejected", "dropped",
              "running", "attempt", "backoff"}

\* A worker thread is occupied by a task from the moment it dequeues it
\* until _execute_download returns, and by a do_resume job until it returns.
OnWorker == {"running", "attempt", "backoff", "finishing"}

Busy == Cardinality({t \in TaskIds : tasks[t].st \in OnWorker})
        + Cardinality({r \in 1..Len(resumes) :
                          resumes[r].st \in {"fetching", "submitting"}})

DmInit ==
    /\ tasks = <<>>
    /\ active_downloads = {}
    /\ taskOf = [p \in Posts |-> 0]
    /\ pending_count = 0
    /\ resuming_count = 0
    /\ failed_downloads = [p \in Posts |-> 0]
    /\ workQueue = <<>>
    /\ executorDown = FALSE
    /\ shutdownPc = "idle"
    /\ resumes = <<>>
    /\ events = [p \in Posts |-> <<>>]
    /\ ret = [existed |-> FALSE, token |-> 0]

NewTask(p, cb, via) ==
    [pid |-> p, st |-> "registered", cancelled |-> FALSE, attempt |-> 0,
     cb |-> cb, via |-> via, success |-> FALSE, nComplete |-> 0, nError |-> 0]

\* CancellationToken.cancel: latch the event.
CancelTokenToggle(ts, t) == [ts EXCEPT ![t].cancelled = ~@]

CancelToken(ts, t) == [ts EXCEPT ![t].cancelled = TRUE]

\* A submit_download whose locked part registers without looking at
\* active_downloads.
RegisterNoDuplicateCheck(p, cb, via) ==
    /\ Len(tasks) < MaxTasks
    /\ active_downloads' = active_downloads \cup {p}
    /\ pending_count' = pending_count + 1
    /\ tasks' = Append(tasks, NewTask(p, cb, via))
    /\ taskOf' = [taskOf EXCEPT ![p] = Len(tasks) + 1]
    /\ ret' = [existed |-> p \in active_downloads,
               token |-> Len(tasks) + 1]

\* The locked part of submit_download (lines 204-222): a post_id that is in
\* active_downloads is refused (the call returns None), otherwise the task
\* is registered and its fresh token is what the call will return.
Register(p, cb, via) ==
    IF p \in active_downloads
    THEN /\ ret' = [existed |-> TRUE, token |-> 0]
         /\ UNCHANGED <<tasks, active_downloads, taskOf, pending_count>>
    ELSE /\ Len(tasks) < MaxTasks
         /\ active_downloads' = active_downloads \cup {p}
         /\ pending_count' = pending_count + 1
         /\ tasks' = Append(tasks, NewTask(p, cb, via))
         /\ taskOf' = [taskOf EXCEPT ![p] = Len(tasks) + 1]
         /\ ret' = [existed |-> FALSE, token |-> Len(tasks) + 1]

\* do_resume jobs that may still call submit_download.
OpenResumes == {r \in 1..Len(resumes) :
                   resumes[r].st \in {"queued", "fetching"}}

\* submit_download called by a user thread: the locked part.  (A slot of the
\* bounded task list is kept for every do_resume that has yet to submit.)
SubmitDownload(p, cb) ==
    /\ Len(tasks) + Cardinality(OpenResumes) < MaxTasks
    /\ Register(p, cb, "user")
    /\ UNCHANGED nonDmVars
    /\ UNCHANGED <<resuming_count, failed_downloads, workQueue, executorDown,
                   shutdownPc, resumes, events>>

\* An Event on the bus; the task that published it is kept beside its type.
Event(type, t) == [type |-> type, task |-> t]

\* EVENT_BUS.publish of a lifecycle event of task t.
Publish(type, t) ==
    [events EXCEPT ![tasks[t].pid] = Append(@, Event(type, t))]

\* The resume job (if any) whose nested submit_download created task t.
ResumeOf(t) == {r \in 1..Len(resumes) :
                   resumes[r].st = "submitting" /\ resumes[r].task = t}

\* do_resume's exit once its nested submit_download has returned or raised:
\* the except clause calls on_error, the finally clause decrements.
ResumeExit(t, raised) ==
    IF ResumeOf(t) = {}
    THEN UNCHANGED <<resumes, resuming_count>>
    ELSE LET r == CHOOSE x \in ResumeOf(t) : TRUE IN
         /\ resumes' = [resumes EXCEPT
                           ![r].st = "done",
                           ![r].nError = IF raised /\ resumes[r].cb
                                         THEN @ + 1 ELSE @]
         /\ resuming_count' = Max(0, resuming_count - 1)

\* submit_download after the lock (lines 224-229): publish DOWNLOAD_STARTED,
\* then hand the task to the executor, which raises RuntimeError once it has
\* been shut down.
SubmitSchedule(t) ==
    /\ t \in TaskIds
    /\ tasks[t].st = "registered"
    /\ events' = Publish("STARTED", t)
    /\ IF executorDown
       THEN /\ tasks' = [tasks EXCEPT ![t].st = "rejected"]
            /\ UNCHANGED workQueue
       ELSE /\ tasks' = [tasks EXCEPT ![t].st = "queued"]
            /\ workQueue' = Append(workQueue, [kind |-> "dl", id |-> t])
    /\ ResumeExit(t, executorDown)
    /\ UNCHANGED nonDmVars
    /\ UNCHANGED <<active_downloads, taskOf, pending_count, failed_downloads,
                   executorDown, shutdownPc, ret>>

\* cancel_download (lines 231-255).
CancelDownload(p) ==
    /\ taskOf[p] # 0
    /\ tasks' = CancelToken(tasks, taskOf[p])
    /\ UNCHANGED nonDmVars
    /\ UNCHANGED <<active_downloads, taskOf, pending_count, resuming_count,
                   failed_downloads, workQueue, executorDown, shutdownPc,
                   resumes, events, ret>>

\* The caller of submit_download holds the returned token and may set it at
\* any time before the task is over (nothing reads the token afterwards).
TokenCancel(t) ==
    /\ t \in TaskIds
    /\ tasks[t].via = "user"
    /\ tasks[t].st # "done"
    /\ tasks' = CancelToken(tasks, t)
    /\ UNCHANGED nonDmVars
    /\ UNCHANGED <<active_downloads, taskOf, pending_count, resuming_count,
                   failed_downloads, workQueue, executorDown, shutdownPc,
                   resumes, events, ret>>

RECURSIVE CancelEach(_, _)
CancelEach(ts, S) ==
    IF S = {} THEN ts
    ELSE LET t == CHOOSE x \in S : TRUE
         IN CancelEach(CancelToken(ts, t), S \ {t})

\* cancel_all (lines 257-278): every task of the map whose token is not set.
CancelAllTokens(ts) ==
    CancelEach(ts, {taskOf[p] : p \in {q \in Posts : taskOf[q] # 0
                                          /\ ~ts[taskOf[q]].cancelled}})

CancelAll ==
    /\ tasks' = CancelAllTokens(tasks)
    /\ UNCHANGED nonDmVars
    /\ UNCHANGED <<active_downloads, taskOf, pending_count, resuming_count,
                   failed_downloads, workQueue, executorDown, shutdownPc,
                   resumes, events, ret>>

\* shutdown (lines 743-744): set the shutdown flag and cancel every task.
ShutdownCancelAll ==
    /\ shutdownPc = "idle"
    /\ shutdownPc' = "cancelled"
    /\ tasks' = CancelAllTokens(tasks)
    /\ UNCHANGED nonDmVars
    /\ UNCHANGED <<active_downloads, taskOf, pending_count, resuming_count,
                   failed_downloads, workQueue, executorDown, resumes,
                   events, ret>>

\* The state of a job after executor.shutdown(cancel_futures=True): a job
\* still in the work queue has its future cancelled and never runs.
DropQueued(js, kind) ==
    [i \in 1..Len(js) |->
        IF js[i].st = "queued" /\ \E k \in 1..Len(workQueue) :
                                     workQueue[k] = [kind |-> kind, id |-> i]
        THEN [js[i] EXCEPT !.st = "dropped"]
        ELSE js[i]]

\* shutdown (line 745): executor.shutdown(wait, cancel_futures=True) refuses
\* new jobs and drains the work queue; running jobs run on.
ShutdownExecutor ==
    /\ shutdownPc = "cancelled"
    /\ shutdownPc' = "down"
    /\ executorDown' = TRUE
    /\ workQueue' = <<>>
    /\ tasks' = DropQueued(tasks, "dl")
    /\ resumes' = DropQueued(resumes, "resume")
    /\ UNCHANGED nonDmVars
    /\ UNCHANGED <<active_downloads, taskOf, pending_count, resuming_count,
                   failed_downloads, events, ret>>

\* A free worker thread of the pool takes the oldest queued job.
WorkerStart ==
    /\ workQueue # <<>>
    /\ Busy < MaxWorkers
    /\ workQueue' = Tail(workQueue)
    /\ LET j == Head(workQueue) IN
       IF j.kind = "dl"
       THEN /\ tasks' = [tasks EXCEPT ![j.id].st = "running"]
            /\ UNCHANGED resumes
       ELSE /\ resumes' = [resumes EXCEPT ![j.id].st = "fetching"]
            /\ UNCHANGED tasks
    /\ UNCHANGED nonDmVars
    /\ UNCHANGED <<active_downloads, taskOf, pending_count, resuming_count,
                   failed_downloads, executorDown, shutdownPc, events, ret>>

\* _finish_download, the locked part (lines 629-637): the post_id leaves the
\* active set and the task map, a failure is counted.
FinishLocked(t, success) ==
    LET p == tasks[t].pid IN
    /\ active_downloads' = active_downloads \ {p}
    /\ pending_count' = Max(0, pending_count - 1)
    /\ taskOf' = [taskOf EXCEPT ![p] = 0]
    /\ failed_downloads' =
          IF success THEN failed_downloads
          ELSE [failed_downloads EXCEPT ![p] = @ + 1]
    /\ tasks' = [tasks EXCEPT ![t].st = "finishing", ![t].success = success]

\* _execute_download up to the download loop (lines 353-380): an invalid URL
\* or a path error finishes the task as failed, an existing final file
\* finishes it as complete, otherwise the retry loop is entered.
Execute(t) ==
    /\ t \in TaskIds
    /\ tasks[t].st = "running"
    /\ \E o \in {"invalid", "exists", "download"} :
          CASE o = "invalid" -> FinishLocked(t, FALSE)
            [] o = "exists" -> FinishLocked(t, TRUE)
            [] o = "download" ->
                 /\ tasks' = [tasks EXCEPT ![t].st = "attempt"]
                 /\ UNCHANGED <<active_downloads, taskOf, pending_count,
                                failed_downloads>>
    /\ UNCHANGED nonDmVars
    /\ UNCHANGED <<resuming_count, workQueue, executorDown, shutdownPc,
                   resumes, events, ret>>

\* One pass of the loop of _do_download (lines 401-430): a set token ends the
\* task, a successful attempt completes it, an exception on the last attempt
\* fails it (_handle_retry_exception, lines 601-608), an earlier exception
\* starts the backoff wait.
Attempt(t) ==
    /\ t \in TaskIds
    /\ tasks[t].st = "attempt"
    /\ IF tasks[t].cancelled
       THEN FinishLocked(t, FALSE)
       ELSE \E o \in {"ok", "exception"} :
              IF o = "ok" THEN FinishLocked(t, TRUE)
              ELSE IF tasks[t].attempt >= MaxRetries - 1
              THEN FinishLocked(t, FALSE)
              ELSE /\ tasks' = [tasks EXCEPT ![t].st = "backoff"]
                   /\ UNCHANGED <<active_downloads, taskOf, pending_count,
                                  failed_downloads>>
    /\ UNCHANGED nonDmVars
    /\ UNCHANGED <<resuming_count, workQueue, executorDown, shutdownPc,
                   resumes, events, ret>>

\* The wait of _handle_retry_exception (lines 610-617): a token set during
\* the wait ends the task, otherwise the next attempt starts.
Backoff(t) ==
    /\ t \in TaskIds
    /\ tasks[t].st = "backoff"
    /\ IF tasks[t].cancelled
       THEN FinishLocked(t, FALSE)
       ELSE /\ tasks' = [tasks EXCEPT ![t].st = "attempt",
                                       ![t].attempt = @ + 1]
            /\ UNCHANGED <<active_downloads, taskOf, pending_count,
                           failed_downloads>>
    /\ UNCHANGED nonDmVars
    /\ UNCHANGED <<resuming_count, workQueue, executorDown, shutdownPc,
                   resumes, events, ret>>

\* The terminal event of _finish_download (lines 659-664): the token is read
\* only now.
TerminalType(t) ==
    IF tasks[t].success THEN "COMPLETED"
    ELSE IF tasks[t].cancelled THEN "CANCELLED" ELSE "FAILED"

\* A _finish_download that publishes its terminal event twice.
PublishTwice(t) ==
    [events EXCEPT ![tasks[t].pid] =
        @ \o <<Event(TerminalType(t), t), Event(TerminalType(t), t)>>]

\* EVENT_BUS.publish of the terminal event (lines 646-651, 666-668).
PublishTerminal(t) == Publish(TerminalType(t), t)

\* _finish_download after the lock (lines 639-668): the user callback
\* (on_complete after a success, on_error after a failure, when the caller
\* supplied them), then the terminal event.
FinishNotify(t) ==
    /\ t \in TaskIds
    /\ tasks[t].st = "finishing"
    /\ tasks' = [tasks EXCEPT
                    ![t].st = "done",
                    ![t].nComplete = IF tasks[t].success /\ tasks[t].cb
                                     THEN @ + 1 ELSE @,
                    ![t].nError = IF ~tasks[t].success /\ tasks[t].cb
                                  THEN @ + 1 ELSE @]
    /\ events' = PublishTerminal(t)
    /\ UNCHANGED nonDmVars
    /\ UNCHANGED <<active_downloads, taskOf, pending_count, resuming_count,
                   failed_downloads, workQueue, executorDown, shutdownPc,
                   resumes, ret>>

NewResume(p, cb, st) ==
    [pid |-> p, st |-> st, cb |-> cb, task |-> 0, nError |-> 0]

\* submit_resume (lines 307-312, 351): refused while the post_id is active,
\* otherwise counted and handed to the executor, which raises RuntimeError
\* once it has been shut down.
SubmitResume(p, cb) ==
    /\ Len(resumes) < MaxResumes
    /\ Len(tasks) + Cardinality(OpenResumes) < MaxTasks
    /\ p \notin active_downloads
    /\ resuming_count' = resuming_count + 1
    /\ IF executorDown
       THEN /\ resumes' = Append(resumes, NewResume(p, cb, "rejected"))
            /\ UNCHANGED workQueue
       ELSE /\ resumes' = Append(resumes, NewResume(p, cb, "queued"))
            /\ workQueue' = Append(workQueue,
                                   [kind |-> "resume", id |-> Len(resumes) + 1])
    /\ UNCHANGED nonDmVars
    /\ UNCHANGED <<tasks, active_downloads, taskOf, pending_count,
                   failed_downloads, executorDown, shutdownPc, events, ret>>

\* do_resume (lines 314-349): the API request fails (on_error, then the
\* finally clause), or it answers and submit_download is called for the
\* post; a refused submit ends the job at once.
ResumeFetch(r) ==
    /\ r \in 1..Len(resumes)
    /\ resumes[r].st = "fetching"
    /\ \E o \in {"api_error", "ok"} :
          IF o = "api_error"
          THEN /\ resumes' = [resumes EXCEPT
                                 ![r].st = "done",
                                 ![r].nError = IF resumes[r].cb
                                               THEN @ + 1 ELSE @]
               /\ resuming_count' = Max(0, resuming_count - 1)
               /\ UNCHANGED <<tasks, active_downloads, taskOf, pending_count,
                              ret>>
          ELSE /\ Register(resumes[r].pid, resumes[r].cb, "resume")
               /\ IF resumes[r].pid \in active_downloads
                  THEN /\ resumes' = [resumes EXCEPT ![r].st = "done"]
                       /\ resuming_count' = Max(0, resuming_count - 1)
                  ELSE /\ resumes' = [resumes EXCEPT
                                         ![r].st = "submitting",
                                         ![r].task = Len(tasks) + 1]
                       /\ UNCHANGED resuming_count
    /\ UNCHANGED nonDmVars
    /\ UNCHANGED <<failed_downloads, workQueue, executorDown, shutdownPc,
                   events>>

\* The steps taken by the manager's own threads for task t.
TaskStep(t) ==
    \/ SubmitSchedule(t)
    \/ Execute(t)
    \/ Attempt(t)
    \/ Backoff(t)
    \/ FinishNotify(t)

DmNext ==
    \/ \E p \in Posts, cb \in BOOLEAN : SubmitDownload(p, cb)
    \/ \E p \in Posts, cb \in BOOLEAN : SubmitResume(p, cb)
    \/ \E p \in Posts : CancelDownload(p)
    \/ \E t \in 1..MaxTasks : TokenCancel(t)
    \/ CancelAll
    \/ ShutdownCancelAll
    \/ ShutdownExecutor
    \/ WorkerStart
    \/ \E r \in 1..MaxResumes : ResumeFetch(r)
    \/ \E t \in 1..MaxTasks : TaskStep(t)

(***************************************************************************)
(* EventBus                                                                *)
(***************************************************************************)
MaxSubs == 2
MaxPubs == 2

\* EventType values subscribed to and published.
Kinds == {"IMAGE_LOADED", "POST_CHANGED"}

\* The owner argument of subscribe: None, the empty string, a name.
OwnerValues == {"None", "", "main_window"}

\* Owner values that are keys of _owner_tokens (subscribe, lines 381-384:
\* every owner that is not None).
OwnerKeys == OwnerValues \ {"None"}

\* Python truthiness of an owner value (lines 417, 441).
Truthy(o) == o \notin {"None", ""}

TokenIds == 1..Len(tokens)

\* No unsubscribe_all call has just returned (or one that found nothing to
\* remove and removed nothing).
NoUnsub == [ret |-> 0, had |-> 0, left |-> 0, othersKept |-> TRUE]

BusInit ==
    /\ tokens = <<>>
    /\ subscribers = [k \in Kinds |-> <<>>]
    /\ owner_tokens = [o \in OwnerKeys |-> {}]
    /\ stats = [total_published |-> 0, total_delivered |-> 0,
                total_errors |-> 0]
    /\ pubs = <<>>
    /\ disposed = {}
    /\ lateCalls = {}
    /\ lastUnsub = NoUnsub

\* subscribe (lines 367-393).
Subscribe(k, o) ==
    /\ Len(tokens) < MaxSubs
    /\ LET id == Len(tokens) + 1 IN
       /\ subscribers' = [subscribers EXCEPT ![k] = Append(@, id)]
       /\ owner_tokens' = IF o # "None"
                          THEN [owner_tokens EXCEPT ![o] = @ \cup {id}]
                          ELSE owner_tokens
       /\ tokens' = Append(tokens, [kind |-> k, owner |-> o, active |-> TRUE,
                                    pc |-> "idle"])
    /\ UNCHANGED <<stats, pubs, disposed, lateCalls>>
    /\ lastUnsub' = NoUnsub
    /\ UNCHANGED nonBusVars

Without(seq, S) == SelectSeq(seq, LAMBDA x : x \notin S)

InSeq(seq, x) == \E i \in 1..Len(seq) : seq[i] = x

\* SubscriptionToken.dispose, first half (lines 224-227): under the token's
\* lock, a token that is no longer active makes the call return False at
\* once, an active one is marked inactive.
DisposeMark(id) ==
    /\ id \in TokenIds
    /\ tokens[id].pc = "idle"
    /\ IF ~tokens[id].active
       THEN /\ disposed' = disposed \cup {id}
            /\ UNCHANGED tokens
       ELSE /\ tokens' = [tokens EXCEPT ![id].active = FALSE,
                                        ![id].pc = "removing"]
            /\ UNCHANGED disposed
    /\ UNCHANGED <<subscribers, owner_tokens, stats, pubs, lateCalls>>
    /\ lastUnsub' = NoUnsub
    /\ UNCHANGED nonBusVars

\* A second dispose() call on a token whose first call is between its two
\* halves: it finds the token inactive and returns False (lines 225-226).
DisposeAgain(id) ==
    /\ id \in TokenIds
    /\ tokens[id].pc = "removing"
    /\ disposed' = disposed \cup {id}
    /\ UNCHANGED <<tokens, subscribers, owner_tokens, stats, pubs, lateCalls>>
    /\ lastUnsub' = NoUnsub
    /\ UNCHANGED nonBusVars

\* _remove_subscription (lines 407-425): the owner map after the call.
OwnersAfterRemove(id) ==
    LET k == tokens[id].kind
        o == tokens[id].owner
    IN IF InSeq(subscribers[k], id) /\ Truthy(o)
       THEN [owner_tokens EXCEPT ![o] = @ \ {id}]
       ELSE owner_tokens

\* SubscriptionToken.dispose, second half (lines 229-233): the bus removes
\* the subscription under its lock, then the call returns True.
DisposeRemove(id) ==
    /\ id \in TokenIds
    /\ tokens[id].pc = "removing"
    /\ subscribers' = [subscribers EXCEPT
                          ![tokens[id].kind] = Without(@, {id})]
    /\ owner_tokens' = OwnersAfterRemove(id)
    /\ tokens' = [tokens EXCEPT ![id].pc = "idle"]
    /\ disposed' = disposed \cup {id}
    /\ UNCHANGED <<stats, pubs, lateCalls>>
    /\ lastUnsub' = NoUnsub
    /\ UNCHANGED nonBusVars

\* The subscriptions registered in subs whose owner is o.
SubsOf(subs, o) ==
    {id \in TokenIds : tokens[id].owner = o
                        /\ \E k \in Kinds : InSeq(subs[k], id)}

\* The subscriptions registered in subs whose owner is not o, kind by kind
\* and in order.
OthersOf(subs, o) ==
    [k \in Kinds |-> SelectSeq(subs[k], LAMBDA id : tokens[id].owner # o)]

\* unsubscribe_all (lines 441-461): a falsy owner returns 0 at once;
\* otherwise the owner's set is popped and each of its ids removed from
\* every kind, counting the removals.
UnsubscribeAll(o) ==
    LET token_ids == IF Truthy(o) THEN owner_tokens[o] ELSE {}
        after == [k \in Kinds |-> Without(subscribers[k], token_ids)]
        removed_count ==
            Cardinality({id \in token_ids :
                            \E k \in Kinds : InSeq(subscribers[k], id)})
    IN /\ owner_tokens' = IF Truthy(o)
                          THEN [owner_tokens EXCEPT ![o] = {}]
                          ELSE owner_tokens
       /\ subscribers' = after
       /\ lastUnsub' = [ret |-> removed_count,
                        had |-> Cardinality(SubsOf(subscribers, o)),
                        left |-> Cardinality(SubsOf(after, o)),
                        othersKept |->
                            OthersOf(after, o) = OthersOf(subscribers, o)]
       /\ UNCHANGED <<tokens, stats, pubs, disposed, lateCalls>>
       /\ UNCHANGED nonBusVars

\* clear (lines 560-565).
Clear ==
    /\ \E k \in Kinds : subscribers[k] # <<>>
    /\ subscribers' = [k \in Kinds |-> <<>>]
    /\ owner_tokens' = [o \in OwnerKeys |-> {}]
    /\ UNCHANGED <<tokens, stats, pubs, disposed, lateCalls>>
    /\ lastUnsub' = NoUnsub
    /\ UNCHANGED nonBusVars

\* publish, the locked start (lines 486-492): the subscriptions of the kind
\* are copied and the event is counted; with no subscription the call
\* returns 0.
PublishBegin(k) ==
    /\ Len(pubs) < MaxPubs
    /\ pubs' = Append(pubs, [kind |-> k, snap |-> subscribers[k], idx |-> 1,
                             delivered |-> 0, called |-> <<>>,
                             errors |-> 0,
                             st |-> IF subscribers[k] = <<>>
                                    THEN "done" ELSE "delivering"])
    /\ stats' = [stats EXCEPT !.total_published = @ + 1]
    /\ UNCHANGED <<tokens, subscribers, owner_tokens, disposed, lateCalls>>
    /\ lastUnsub' = NoUnsub
    /\ UNCHANGED nonBusVars

\* The delivery loop after a callback raised: the loop is left.
AbortOnRaise(pub, raises) ==
    IF raises THEN Len(pub.snap) + 1 ELSE pub.idx + 1

\* The delivery loop after a callback returned or raised (lines 495-509):
\* the except clause is inside the loop, which goes on to the next copied
\* subscription.
NextIndex(pub, raises) == pub.idx + 1

\* publish, one pass of the delivery loop (lines 495-509): the callback of
\* the next copied subscription is invoked, outside the lock; it returns or
\* raises.
PublishDeliver(i) ==
    /\ i \in 1..Len(pubs)
    /\ pubs[i].st = "delivering"
    /\ pubs[i].idx <= Len(pubs[i].snap)
    /\ LET id == pubs[i].snap[pubs[i].idx] IN
       /\ lateCalls' = IF id \in disposed THEN lateCalls \cup {id}
                       ELSE lateCalls
       /\ \E raises \in BOOLEAN :
             IF raises
             THEN /\ stats' = [stats EXCEPT !.total_errors = @ + 1]
                  /\ pubs' = [pubs EXCEPT
                                 ![i].idx = NextIndex(pubs[i], raises),
                                 ![i].called = Append(@, id),
                                 ![i].errors = @ + 1]
             ELSE /\ pubs' = [pubs EXCEPT
                                 ![i].idx = NextIndex(pubs[i], raises),
                                 ![i].called = Append(@, id),
                                 ![i].delivered = @ + 1]
                  /\ UNCHANGED stats
    /\ UNCHANGED <<tokens, subscribers, owner_tokens, disposed>>
    /\ lastUnsub' = NoUnsub
    /\ UNCHANGED nonBusVars

\* publish, the end (lines 511-514).
PublishEnd(i) ==
    /\ i \in 1..Len(pubs)
    /\ pubs[i].st = "delivering"
    /\ pubs[i].idx > Len(pubs[i].snap)
    /\ stats' = [stats EXCEPT !.total_delivered = @ + pubs[i].delivered]
    /\ pubs' = [pubs EXCEPT ![i].st = "done"]
    /\ UNCHANGED <<tokens, subscribers, owner_tokens, disposed, lateCalls>>
    /\ lastUnsub' = NoUnsub
    /\ UNCHANGED nonBusVars

BusNext ==
    \/ \E k \in Kinds, o \in OwnerValues : Subscribe(k, o)
    \/ \E id \in 1..MaxSubs : DisposeMark(id)
    \/ \E id \in 1..MaxSubs : DisposeAgain(id)
    \/ \E id \in 1..MaxSubs : DisposeRemove(id)
    \/ \E o \in OwnerKeys : UnsubscribeAll(o)
    \/ Clear
    \/ \E k \in Kinds : PublishBegin(k)
    \/ \E i \in 1..MaxPubs : PublishDeliver(i)
    \/ \E i \in 1..MaxPubs : PublishEnd(i)

(***************************************************************************)
(* LRUCache                                                                *)
(***************************************************************************)
MaxCap == 2
MaxLoaders == 2
MaxBudget == 4
MaxItemBytes == 5

CacheKeys == {"k1", "k2", "k3"}

\* The threads that call get_or_load.
Loaders == 1..MaxLoaders

\* key in self._cache
Has(c, k) == InSeq(c, k)

\* A hit that leaves the key where it is.
KeepPosition(c, k) == c

\* OrderedDict.move_to_end(key).
MoveToEnd(c, k) == Append(Without(c, {k}), k)

\* self._cache[key] = value: a new key goes to the end, a key that is
\* present keeps its position.
Assign(c, k) == IF Has(c, k) THEN c ELSE Append(c, k)

\* while len(self._cache) > self._maxsize: popitem(last=False): what is
\* popped, and what is left.
Evicted(c, n) == IF Len(c) > n THEN SubSeq(c, 1, Len(c) - n) ELSE <<>>

Kept(c, n) == IF Len(c) > n THEN SubSeq(c, Len(c) - n + 1, Len(c)) ELSE c

\* A key is touched: it becomes the most recently touched one.
Touch(rec, k) == Append(Without(rec, {k}), k)

\* The keys of sequence ev are popped: are they the least recently touched
\* ones of rec, in that order?
TookLeastRecent(rec, ev) ==
    /\ Len(ev) <= Len(rec)
    /\ ev = SubSeq(rec, 1, Len(ev))

Drop(rec, ev) == Without(rec, {ev[i] : i \in 1..Len(ev)})

\* The state of a cache nobody uses.
CacheIdle ==
    /\ cache = <<>>
    /\ maxsize = 1
    /\ loading = [th \in Loaders |-> "-"]
    /\ lastTouched = <<>>
    /\ lastCounted = <<>>
    /\ lruTouched = TRUE
    /\ lruCounted = TRUE
    /\ lastEvicted = <<>>
    /\ max_memory = 0
    /\ current_memory = 0
    /\ item_sizes = [k \in CacheKeys |-> 0]
    /\ lastPut = [key |-> "-", size |-> 0]

\* LRUCache(maxsize) (lines 46-62).
CacheInit ==
    /\ cache = <<>>
    /\ maxsize \in 1..MaxCap
    /\ loading = [th \in Loaders |-> "-"]
    /\ lastTouched = <<>>
    /\ lastCounted = <<>>
    /\ lruTouched = TRUE
    /\ lruCounted = TRUE
    /\ lastEvicted = <<>>
    /\ max_memory = 0
    /\ current_memory = 0
    /\ item_sizes = [k \in CacheKeys |-> 0]
    /\ lastPut = [key |-> "-", size |-> 0]

\* The cache goes from order c0 (before the eviction loop) to what the loop
\* keeps; the two recency records follow, r1 and r2 being their values once
\* the operation's touch is applied.
EvictTo(c0, n, r1, r2) ==
    /\ cache' = Kept(c0, n)
    /\ lastTouched' = Drop(r1, Evicted(c0, n))
    /\ lastCounted' = Drop(r2, Evicted(c0, n))
    /\ lruTouched' = (lruTouched /\ TookLeastRecent(r1, Evicted(c0, n)))
    /\ lruCounted' = (lruCounted /\ TookLeastRecent(r2, Evicted(c0, n)))
    /\ lastEvicted' = Evicted(c0, n)

memVars == <<max_memory, current_memory, item_sizes, lastPut>>

\* get (lines 104-110): a hit moves the key to the end.
Get(k) ==
    /\ Has(cache, k)
    /\ cache' = MoveToEnd(cache, k)
    /\ lastTouched' = Touch(lastTouched, k)
    /\ lastCounted' = Touch(lastCounted, k)
    /\ UNCHANGED <<maxsize, loading, lruTouched, lruCounted, lastEvicted,
                   memVars>>
    /\ UNCHANGED nonCacheVars

\* LRUCache.put (lines 125-132).
Put(k) ==
    /\ EvictTo(Assign(IF Has(cache, k) THEN MoveToEnd(cache, k) ELSE cache, k),
               maxsize, Touch(lastTouched, k), Touch(lastCounted, k))
    /\ UNCHANGED <<maxsize, loading, memVars>>
    /\ UNCHANGED nonCacheVars

\* The maxsize setter (lines 82-86).
SetMaxsize(v) ==
    /\ maxsize' = Max(1, v)
    /\ EvictTo(cache, Max(1, v), lastTouched, lastCounted)
    /\ UNCHANGED <<loading, memVars>>
    /\ UNCHANGED nonCacheVars

\* get_or_load, the first locked block (lines 156-160): a hit moves the key
\* to the end and returns; after a miss the loader runs outside the lock.
GetOrLoadLookup(th, k) ==
    /\ loading[th] = "-"
    /\ IF Has(cache, k)
       THEN /\ cache' = MoveToEnd(cache, k)
            /\ lastTouched' = Touch(lastTouched, k)
            /\ lastCounted' = Touch(lastCounted, k)
            /\ UNCHANGED loading
       ELSE /\ loading' = [loading EXCEPT ![th] = k]
            /\ UNCHANGED <<cache, lastTouched, lastCounted>>
    /\ UNCHANGED <<maxsize, lruTouched, lruCounted, lastEvicted, memVars>>
    /\ UNCHANGED nonCacheVars

\* get_or_load, the second locked block (lines 165-178): a key that another
\* thread has inserted meanwhile is returned as it is cached (the loaded
\* value is closed); otherwise the loaded value is inserted and the eviction
\* loop runs.
GetOrLoadStore(th) ==
    /\ loading[th] # "-"
    /\ loading' = [loading EXCEPT ![th] = "-"]
    /\ LET k == loading[th] IN
       IF Has(cache, k)
       THEN /\ lastTouched' = Touch(lastTouched, k)
            /\ UNCHANGED <<cache, lastCounted, lruTouched, lruCounted,
                           lastEvicted>>
       ELSE EvictTo(Assign(cache, k), maxsize,
                    Touch(lastTouched, k), Touch(lastCounted, k))
    /\ UNCHANGED <<maxsize, memVars>>
    /\ UNCHANGED nonCacheVars

CacheNext ==
    \/ \E k \in CacheKeys : Get(k)
    \/ \E k \in CacheKeys : Put(k)
    \/ \E v \in 0..MaxCap : SetMaxsize(v)
    \/ \E th \in Loaders, k \in CacheKeys : GetOrLoadLookup(th, k)
    \/ \E th \in Loaders : GetOrLoadStore(th)

(***************************************************************************)
(* MemoryAwareLRUCache                                                     *)
(***************************************************************************)
\* MemoryAwareLRUCache(maxsize, max_memory_mb) (lines 280-284).
MemInit ==
    /\ cache = <<>>
    /\ maxsize \in 1..MaxCap
    /\ loading = [th \in Loaders |-> "-"]
    /\ lastTouched = <<>>
    /\ lastCounted = <<>>
    /\ lruTouched = TRUE
    /\ lruCounted = TRUE
    /\ lastEvicted = <<>>
    /\ max_memory \in 1..MaxBudget
    /\ current_memory = 0
    /\ item_sizes = [k \in CacheKeys |-> 0]
    /\ lastPut = [key |-> "-", size |-> 0]

\* The eviction loop of MemoryAwareLRUCache.put (lines 320-328): pop the
\* oldest entry while the count or the byte total is over its limit and the
\* cache is not empty.
RECURSIVE MemEvict(_, _, _)
MemEvict(c, mem, sizes) ==
    IF (Len(c) > maxsize \/ mem > max_memory) /\ c # <<>>
    THEN MemEvict(Tail(c), mem - sizes[Head(c)],
                  [sizes EXCEPT ![Head(c)] = 0])
    ELSE [c |-> c, mem |-> mem, sizes |-> sizes]

\* MemoryAwareLRUCache.put (lines 307-328) of a value of the given size.
MemPut(k, size) ==
    LET mem0 == IF Has(cache, k) THEN current_memory - item_sizes[k]
                ELSE current_memory
        c0 == Assign(IF Has(cache, k) THEN MoveToEnd(cache, k) ELSE cache, k)
        r == MemEvict(c0, mem0 + size, [item_sizes EXCEPT ![k] = size])
    IN /\ cache' = r.c
       /\ current_memory' = r.mem
       /\ item_sizes' = r.sizes
       /\ lastPut' = [key |-> k, size |-> size]
       /\ UNCHANGED <<maxsize, loading, lastTouched, lastCounted, lruTouched,
                      lruCounted, lastEvicted, max_memory>>
       /\ UNCHANGED nonCacheVars

\* LRUCache.clear (lines 218-223), which MemoryAwareLRUCache inherits: every
\* value is closed and the OrderedDict is emptied.
CacheClear ==
    /\ cache' = <<>>
    /\ lastTouched' = <<>>
    /\ lastCounted' = <<>>
    /\ UNCHANGED <<maxsize, loading, lruTouched, lruCounted, lastEvicted,
                   memVars>>
    /\ UNCHANGED nonCacheVars

\* The sum of self._item_sizes.get(key, 0) over the keys of c.
RECURSIVE RecordedBytes(_, _)
RecordedBytes(c, sizes) ==
    IF c = <<>> THEN 0 ELSE sizes[Head(c)] + RecordedBytes(Tail(c), sizes)

MemNext == \E k \in CacheKeys, size \in 1..MaxItemBytes : MemPut(k, size)

\* The sizes of the values that are put when every operation is used.
SmallItemBytes == {1, 2}

\* The keys that are used then.
SmallCacheKeys == {"k1", "k2"}

\* MemoryAwareLRUCache overrides put and stats only: get_or_load, clear and
\* the maxsize setter are those of LRUCache. One thread calls get_or_load.
MemOpsNext ==
    \/ \E k \in SmallCacheKeys, size \in SmallItemBytes : MemPut(k, size)
    \/ \E k \in SmallCacheKeys : GetOrLoadLookup(1, k)
    \/ GetOrLoadStore(1)
    \/ \E v \in 1..MaxCap : SetMaxsize(v)
    \/ CacheClear

(***************************************************************************)
(* Atomic store: atomic_write, safe_json_save, safe_json_load              *)
(***************************************************************************)
DEFAULT_MAX_RETRIES == 3

\* A Python value: None, an int, a str, a one-element list or tuple, a
\* one-entry dict whose key is a str or an int (kt), or the empty dict.
Py(t, kt, k, n) == [t |-> t, kt |-> kt, k |-> k, n |-> n]

PyNone == Py("none", "-", "-", 0)
EmptyDict == Py("dict", "-", "-", 0)
NoVal == Py("-", "-", "-", 0)

PyValues ==
    {PyNone, Py("int", "-", "-", 1), Py("int", "-", "-", 2),
     Py("str", "-", "a", 0),
     Py("list", "-", "-", 1), Py("tuple", "-", "-", 1),
     Py("dict", "str", "a", 1), Py("dict", "str", "1", 1),
     Py("dict", "int", "1", 1)}

Defaults == {PyNone, Py("int", "-", "-", 1)}

\* A JSON document, the text of a file.
Doc(j, k, n) == [j |-> j, k |-> k, n |-> n]

Absent == Doc("absent", "-", 0)
Partial == Doc("partial", "-", 0)

\* json.loads that reads every document as a string.
LoadsAsText(d) == Py("str", "-", d.k, 0)

\* json.dumps: a tuple is written as an array, a dict key as a string.
Dumps(v) ==
    CASE v.t = "none" -> Doc("null", "-", 0)
      [] v.t = "int" -> Doc("number", "-", v.n)
      [] v.t = "str" -> Doc("string", v.k, 0)
      [] v.t \in {"list", "tuple"} -> Doc("array", "-", v.n)
      [] v.t = "dict" -> Doc("object", v.k, v.n)

\* json.loads: an array is read as a list, an object as a dict of str keys.
Loads(d) ==
    CASE d.j = "null" -> PyNone
      [] d.j = "number" -> Py("int", "-", "-", d.n)
      [] d.j = "string" -> Py("str", "-", d.k, 0)
      [] d.j = "array" -> Py("list", "-", "-", d.n)
      [] d.j = "object" ->
            Py("dict", IF d.k = "-" THEN "-" ELSE "str", d.k, d.n)

\* safe_json_load.get_default for a default that is not callable.
GetDefault(d) == IF d # PyNone THEN d ELSE EmptyDict

StoreIdle ==
    /\ platform = "posix"
    /\ dst = Absent
    /\ tmp = Absent
    /\ storePc = "idle"
    /\ attempt = 0
    /\ content = Absent
    /\ prior = Absent
    /\ awOutcome = "none"
    /\ lockHolder = "free"
    /\ saveData = NoVal
    /\ saveRet = "none"
    /\ lastSaved = NoVal
    /\ loadDefault = NoVal
    /\ loadRet = NoVal
    /\ loadTimedOut = FALSE

StoreInit ==
    /\ platform \in {"posix", "win32"}
    /\ dst \in {Absent, Dumps(Py("int", "-", "-", 2))}
    /\ tmp = Absent
    /\ storePc = "idle"
    /\ attempt = 0
    /\ content = Absent
    /\ prior = Absent
    /\ awOutcome = "none"
    /\ lockHolder = "free"
    /\ saveData = NoVal
    /\ saveRet = "none"
    /\ lastSaved = NoVal
    /\ loadDefault = NoVal
    /\ loadRet = NoVal
    /\ loadTimedOut = FALSE

\* Another thread or process takes the lock of the path.
OtherAcquire ==
    /\ lockHolder = "free"
    /\ lockHolder' = "other"
    /\ UNCHANGED <<platform, dst, tmp, storePc, attempt, content, prior,
                   awOutcome, saveData, saveRet, lastSaved, loadDefault,
                   loadRet, loadTimedOut>>
    /\ UNCHANGED nonStoreVars

OtherRelease ==
    /\ lockHolder = "other"
    /\ lockHolder' = "free"
    /\ UNCHANGED <<platform, dst, tmp, storePc, attempt, content, prior,
                   awOutcome, saveData, saveRet, lastSaved, loadDefault,
                   loadRet, loadTimedOut>>
    /\ UNCHANGED nonStoreVars

\* safe_json_save(path, v) is called.
SaveBegin(v) ==
    /\ storePc = "idle"
    /\ storePc' = "save_lock"
    /\ saveData' = v
    /\ saveRet' = "none"
    /\ lastSaved' = NoVal
    /\ loadRet' = NoVal
    /\ loadTimedOut' = FALSE
    /\ UNCHANGED <<platform, dst, tmp, attempt, content, prior, awOutcome,
                   lockHolder, loadDefault>>
    /\ UNCHANGED nonStoreVars

\* file_lock raises FileLockTimeoutError; safe_json_save returns False.
SaveLockTimeout ==
    /\ storePc = "save_lock"
    /\ lockHolder = "other"
    /\ storePc' = "idle"
    /\ saveRet' = "false"
    /\ UNCHANGED <<platform, dst, tmp, attempt, content, prior, awOutcome,
                   lockHolder, saveData, lastSaved, loadDefault, loadRet,
                   loadTimedOut>>
    /\ UNCHANGED nonStoreVars

\* The lock is taken, the value serialised and atomic_write entered.
SaveLocked ==
    /\ storePc = "save_lock"
    /\ lockHolder = "free"
    /\ lockHolder' = "self"
    /\ content' = Dumps(saveData)
    /\ prior' = dst
    /\ awOutcome' = "running"
    /\ storePc' = "write_temp"
    /\ UNCHANGED <<platform, dst, tmp, attempt, saveData, saveRet, lastSaved,
                   loadDefault, loadRet, loadTimedOut>>
    /\ UNCHANGED nonStoreVars

\* The with block of atomic_write: open, write, flush, fsync off win32.
WriteTemp ==
    /\ storePc = "write_temp"
    /\ \E outcome \in {"ok", "open_failed", "write_failed", "fsync_failed"} :
          /\ outcome = "fsync_failed" => platform # "win32"
          /\ tmp' = CASE outcome = "open_failed" -> tmp
                      [] outcome = "write_failed" -> Partial
                      [] OTHER -> content
          /\ storePc' = IF outcome = "ok" THEN "replace" ELSE "cleanup"
    /\ attempt' = 0
    /\ UNCHANGED <<platform, dst, content, prior, awOutcome, lockHolder,
                   saveData, saveRet, lastSaved, loadDefault, loadRet,
                   loadTimedOut>>
    /\ UNCHANGED nonStoreVars

\* _safe_replace returns, atomic_write returns, safe_json_save returns True
\* and the lock is released.
ReplaceDone ==
    /\ dst' = tmp
    /\ tmp' = Absent
    /\ awOutcome' = "ok"
    /\ storePc' = "idle"
    /\ saveRet' = "true"
    /\ lastSaved' = saveData
    /\ lockHolder' = "free"
    /\ UNCHANGED attempt

\* An attempt of _safe_replace has raised: the loop goes on, or it is over
\* and the last error is raised.
ReplaceRetry ==
    /\ IF attempt < DEFAULT_MAX_RETRIES - 1
       THEN attempt' = attempt + 1 /\ storePc' = "replace"
       ELSE attempt' = attempt /\ storePc' = "cleanup"
    /\ UNCHANGED <<tmp, awOutcome, saveRet, lastSaved, lockHolder>>

\* src.replace(dst) off win32.
ReplacePosix ==
    /\ storePc = "replace"
    /\ platform # "win32"
    /\ \/ ReplaceDone
       \/ ReplaceRetry /\ UNCHANGED dst
    /\ UNCHANGED <<platform, content, prior, saveData, loadDefault, loadRet,
                   loadTimedOut>>
    /\ UNCHANGED nonStoreVars

\* dst.unlink() on win32, the target being there.
WinUnlink ==
    /\ storePc = "replace"
    /\ platform = "win32"
    /\ dst # Absent
    /\ \/ /\ dst' = Absent
          /\ UNCHANGED <<tmp, storePc, attempt, awOutcome, saveRet,
                         lastSaved, lockHolder>>
       \/ ReplaceRetry /\ UNCHANGED dst
    /\ UNCHANGED <<platform, content, prior, saveData, loadDefault, loadRet,
                   loadTimedOut>>
    /\ UNCHANGED nonStoreVars

\* src.rename(dst) on win32, the target not being there.
WinRename ==
    /\ storePc = "replace"
    /\ platform = "win32"
    /\ dst = Absent
    /\ \/ ReplaceDone
       \/ ReplaceRetry /\ UNCHANGED dst
    /\ UNCHANGED <<platform, content, prior, saveData, loadDefault, loadRet,
                   loadTimedOut>>
    /\ UNCHANGED nonStoreVars

\* The except block of atomic_write: the temp file, which no one else
\* opens, is removed and the error raised; safe_json_save returns False.
Cleanup ==
    /\ storePc = "cleanup"
    /\ tmp' = Absent
    /\ awOutcome' = "failed"
    /\ storePc' = "idle"
    /\ saveRet' = "false"
    /\ lockHolder' = "free"
    /\ UNCHANGED <<platform, dst, attempt, content, prior, saveData,
                   lastSaved, loadDefault, loadRet, loadTimedOut>>
    /\ UNCHANGED nonStoreVars

\* The process dies inside atomic_write; its locks go with it.
Crash ==
    /\ storePc \in {"write_temp", "replace", "cleanup"}
    /\ storePc' = "crashed"
    /\ awOutcome' = "crashed"
    /\ lockHolder' = "free"
    /\ tmp' \in IF storePc = "write_temp" THEN {tmp, Partial} ELSE {tmp}
    /\ UNCHANGED <<platform, dst, attempt, content, prior, saveData, saveRet,
                   lastSaved, loadDefault, loadRet, loadTimedOut>>
    /\ UNCHANGED nonStoreVars

\* safe_json_load(path, d) is called: no file, the default.
LoadBegin(d) ==
    /\ storePc = "idle"
    /\ loadDefault' = d
    /\ loadTimedOut' = FALSE
    /\ IF dst = Absent
       THEN loadRet' = GetDefault(d) /\ storePc' = "idle"
       ELSE loadRet' = NoVal /\ storePc' = "load_lock"
    /\ UNCHANGED <<platform, dst, tmp, attempt, content, prior, awOutcome,
                   lockHolder, saveData, saveRet, lastSaved>>
    /\ UNCHANGED nonStoreVars

\* file_lock raises FileLockTimeoutError; safe_json_load returns the default.
LoadLockTimeout ==
    /\ storePc = "load_lock"
    /\ lockHolder = "other"
    /\ loadRet' = GetDefault(loadDefault)
    /\ loadTimedOut' = TRUE
    /\ storePc' = "idle"
    /\ UNCHANGED <<platform, dst, tmp, attempt, content, prior, awOutcome,
                   lockHolder, saveData, saveRet, lastSaved, loadDefault>>
    /\ UNCHANGED nonStoreVars

\* The lock is taken, the file read and parsed, the lock released.
LoadRead ==
    /\ storePc = "load_lock"
    /\ lockHolder = "free"
    /\ loadRet' = IF dst \in {Absent, Partial}
                  THEN GetDefault(loadDefault)
                  ELSE Loads(dst)
    /\ storePc' = "idle"
    /\ UNCHANGED <<platform, dst, tmp, attempt, content, prior, awOutcome,
                   lockHolder, saveData, saveRet, lastSaved, loadDefault,
                   loadTimedOut>>
    /\ UNCHANGED nonStoreVars

StoreNext ==
    \/ OtherAcquire
    \/ OtherRelease
    \/ \E v \in PyValues : SaveBegin(v)
    \/ SaveLockTimeout
    \/ SaveLocked
    \/ WriteTemp
    \/ ReplacePosix
    \/ WinUnlink
    \/ WinRename
    \/ Cleanup
    \/ Crash
    \/ \E d \in Defaults : LoadBegin(d)
    \/ LoadLockTimeout
    \/ LoadRead

(***************************************************************************)
(* TurboPreloader                                                          *)
(***************************************************************************)
PRIORITY_IMMEDIATE == 0
PRIORITY_NEXT_PAGE == 10
PRIORITY_PREFETCH == 50
PreloadWorkers == 2
PreloadMaxRetries == 1
MaxBatches == 2

PrePosts == {"p1", "p2", "p3"}

\* The lists of posts the viewer passes to preload_*.
Batches == {<<"p1", "p2", "p3">>, <<"p3">>}

Priorities == {PRIORITY_IMMEDIATE, PRIORITY_NEXT_PAGE, PRIORITY_PREFETCH}

\* PreloadTask: order=True compares the priority alone.
PreloadTask(priority, post_id) == [priority |-> priority, post_id |-> post_id]

\* heapq._siftdown(heap, startpos, pos), the item moved being newitem;
\* positions count from 0 as in the source.
RECURSIVE SiftDown(_, _, _, _)
SiftDown(heap, startpos, pos, newitem) ==
    IF pos > startpos
    THEN LET parentpos == (pos - 1) \div 2
             parent == heap[parentpos + 1]
         IN IF newitem.priority < parent.priority
            THEN SiftDown([heap EXCEPT ![pos + 1] = parent],
                          startpos, parentpos, newitem)
            ELSE [heap EXCEPT ![pos + 1] = newitem]
    ELSE [heap EXCEPT ![pos + 1] = newitem]

\* heapq._siftup(heap, pos): the smaller child is moved up until a leaf is
\* reached, then newitem is sifted down from there.
RECURSIVE SiftUp(_, _, _, _)
SiftUp(heap, startpos, pos, newitem) ==
    LET endpos == Len(heap)
        childpos == 2 * pos + 1
        rightpos == childpos + 1
    IN IF childpos < endpos
       THEN LET c == IF rightpos < endpos
                        /\ ~(heap[childpos + 1].priority
                                < heap[rightpos + 1].priority)
                     THEN rightpos ELSE childpos
            IN SiftUp([heap EXCEPT ![pos + 1] = heap[c + 1]],
                      startpos, c, newitem)
       ELSE SiftDown(heap, startpos, pos, newitem)

\* heapq.heappush.
HeapPush(heap, item) == SiftDown(Append(heap, item), 0, Len(heap), item)

\* heapq.heappop: the heap that is left; the item returned is heap[1].
HeapPop(heap) ==
    IF Len(heap) <= 1 THEN <<>>
    ELSE SiftUp(SubSeq(heap, 1, Len(heap) - 1), 0, 0, heap[Len(heap)])

\* heapq.heapify: for i in reversed(range(n // 2)): _siftup(x, i).
RECURSIVE HeapifyFrom(_, _)
HeapifyFrom(heap, i) ==
    IF i < 0 THEN heap
    ELSE HeapifyFrom(SiftUp(heap, i, i, heap[i + 1]), i - 1)

Heapify(heap) == HeapifyFrom(heap, Len(heap) \div 2 - 1)

InHeap(heap) == {heap[i].post_id : i \in 1..Len(heap)}

\* post_id in self._pending: the map is kept as the priority of the task
\* it holds for the post, -1 where it holds none.
IsPending(pend, post_id) == pend[post_id] >= 0

PreIdle ==
    /\ queue = <<>>
    /\ pending = [p \in PrePosts |-> -1]
    /\ in_progress = {}
    /\ retry_counts = [p \in PrePosts |-> 0]
    /\ total_skipped = 0
    /\ cached = {}
    /\ execQueue = <<>>
    /\ loadSt = [p \in PrePosts |-> "idle"]
    /\ retryThreads = [p \in PrePosts |-> 0]
    /\ onFailedCalls = [p \in PrePosts |-> 0]
    /\ calls = 0
    /\ dispatched = <<>>
    /\ owed = {}
    /\ promoted = [post |-> "-", rivals |-> {}]
    /\ shutdown = FALSE
    /\ stopped = {}
    /\ revoked = {}

\* The loop of _enqueue_batch over posts[i..]: st holds the heap, the
\* pending keys, the skipped total and the number added so far.
RECURSIVE EnqueueFrom(_, _, _, _)
EnqueueFrom(st, posts, i, priority) ==
    IF i > Len(posts) THEN st
    ELSE LET post_id == posts[i] IN
         IF post_id \in cached
         THEN EnqueueFrom([st EXCEPT !.skipped = @ + 1], posts, i + 1, priority)
         ELSE IF IsPending(st.pending, post_id) \/ post_id \in in_progress
         THEN EnqueueFrom(st, posts, i + 1, priority)
         ELSE EnqueueFrom(
                 [st EXCEPT !.queue = HeapPush(@, PreloadTask(priority, post_id)),
                            !.pending = [@ EXCEPT ![post_id] = priority],
                            !.added = @ + 1],
                 posts, i + 1, priority)

\* The posts that wait in the heap at PREFETCH.
Prefetching == {queue[i].post_id : i \in {j \in 1..Len(queue) :
                                     queue[j].priority = PRIORITY_PREFETCH}}

\* preload_immediate / preload_next_page / preload_batch: _enqueue_batch
\* under the lock.
EnqueueBatch(posts, priority) ==
    /\ calls < MaxBatches
    /\ calls' = calls + 1
    /\ LET st == EnqueueFrom([queue |-> queue, pending |-> pending,
                              skipped |-> total_skipped, added |-> 0],
                             posts, 1, priority)
       IN /\ queue' = st.queue
          /\ pending' = st.pending
          /\ total_skipped' = st.skipped
    /\ owed' = IF priority = PRIORITY_IMMEDIATE
               THEN owed \cup ({posts[i] : i \in 1..Len(posts)} \ cached)
               ELSE owed
    /\ IF /\ priority = PRIORITY_IMMEDIATE
          /\ Len(posts) = 1
          /\ posts[1] \in Prefetching
       THEN /\ promoted' = [post |-> posts[1],
                            rivals |-> Prefetching \ {posts[1]}]
            /\ dispatched' = <<>>
       ELSE UNCHANGED <<promoted, dispatched>>
    /\ UNCHANGED <<in_progress, retry_counts, cached, execQueue, loadSt,
                   retryThreads, onFailedCalls>>
    /\ revoked' = revoked \ {posts[i] : i \in 1..Len(posts)}
    /\ UNCHANGED <<shutdown, stopped>>
    /\ UNCHANGED nonPreVars

\* The places of the heap where the task object that the pending map holds
\* for post_id can be: those of the tasks of the post with its priority.
PlacesOf(post_id) ==
    {i \in 1..Len(queue) : queue[i] = PreloadTask(pending[post_id], post_id)}

\* boost_priority(post_id): the task object is shared by the pending map
\* and the heap (unless a worker has it); a task that is at IMMEDIATE
\* already is left alone.
BoostPriority(post_id) ==
    /\ IsPending(pending, post_id)
    /\ IF pending[post_id] > PRIORITY_IMMEDIATE
       THEN /\ pending' = [pending EXCEPT ![post_id] = PRIORITY_IMMEDIATE]
            /\ IF PlacesOf(post_id) = {}
               THEN queue' = Heapify(queue)
               ELSE \E i \in PlacesOf(post_id) :
                       queue' = Heapify([queue EXCEPT ![i].priority =
                                                         PRIORITY_IMMEDIATE])
       ELSE UNCHANGED <<pending, queue>>
    /\ UNCHANGED <<in_progress, retry_counts, total_skipped, cached, execQueue,
                   loadSt, retryThreads, onFailedCalls, calls, dispatched,
                   owed, promoted>>
    /\ UNCHANGED <<shutdown, stopped, revoked>>
    /\ UNCHANGED nonPreVars

\* _schedule_loop: under the condition's lock the scheduler pops the heap
\* and marks the post in progress, then submits _load_one to the pool.
\* The model follows one job per post: a second task of a post whose job
\* has not ended is popped once it has.
SchedulePop ==
    /\ ~shutdown
    /\ queue # <<>>
    /\ loadSt[queue[1].post_id] = "idle"
    /\ LET task == queue[1] IN
       /\ queue' = HeapPop(queue)
       /\ in_progress' = in_progress \cup {task.post_id}
       /\ execQueue' = Append(execQueue, task.post_id)
       /\ loadSt' = [loadSt EXCEPT ![task.post_id] = "submitted"]
       /\ dispatched' = IF promoted.post = "-" THEN dispatched
                        ELSE Append(dispatched, task.post_id)
    /\ UNCHANGED <<pending, retry_counts, total_skipped, cached, retryThreads,
                   onFailedCalls, calls, owed, promoted>>
    /\ UNCHANGED <<shutdown, stopped, revoked>>
    /\ UNCHANGED nonPreVars

PreBusy == Cardinality({p \in PrePosts : loadSt[p] \in {"loading", "finally"}})

\* A free thread of the pool starts the oldest submitted _load_one.
LoadStart ==
    /\ execQueue # <<>>
    /\ PreBusy < PreloadWorkers
    /\ loadSt' = [loadSt EXCEPT ![Head(execQueue)] = "loading"]
    /\ execQueue' = Tail(execQueue)
    /\ UNCHANGED <<queue, pending, in_progress, retry_counts, total_skipped,
                   cached, retryThreads, onFailedCalls, calls, dispatched,
                   owed, promoted>>
    /\ UNCHANGED <<shutdown, stopped, revoked>>
    /\ UNCHANGED nonPreVars

\* The try block of _load_one with its except clause.  outcome is what the
\* fetch does: "ok" (200 and a decodable image), "permanent" (no URL or
\* 404: ValueError) or "retryable" (any other exception).
LoadOne(post_id, outcome) ==
    /\ loadSt[post_id] = "loading"
    /\ loadSt' = [loadSt EXCEPT ![post_id] = "finally"]
    /\ IF post_id \in cached
       THEN /\ owed' = owed \ {post_id}
            /\ UNCHANGED <<retry_counts, cached, retryThreads, onFailedCalls>>
       ELSE IF outcome = "ok"
       THEN /\ cached' = cached \cup {post_id}
            /\ retry_counts' = [retry_counts EXCEPT ![post_id] = 0]
            /\ owed' = owed \ {post_id}
            /\ UNCHANGED <<retryThreads, onFailedCalls>>
       ELSE IF retry_counts[post_id] < PreloadMaxRetries
               /\ outcome = "retryable"
       THEN /\ retry_counts' = [retry_counts EXCEPT ![post_id] = @ + 1]
            /\ retryThreads' = [retryThreads EXCEPT ![post_id] = @ + 1]
            /\ UNCHANGED <<cached, onFailedCalls, owed>>
       ELSE /\ retry_counts' = [retry_counts EXCEPT ![post_id] = 0]
            /\ onFailedCalls' = [onFailedCalls EXCEPT ![post_id] = @ + 1]
            /\ owed' = owed \ {post_id}
            /\ UNCHANGED <<cached, retryThreads>>
    /\ UNCHANGED <<queue, pending, in_progress, total_skipped, execQueue,
                   calls, dispatched, promoted>>
    /\ UNCHANGED <<shutdown, stopped, revoked>>
    /\ UNCHANGED nonPreVars

\* The finally clause of _load_one.
LoadFinally(post_id) ==
    /\ loadSt[post_id] = "finally"
    /\ loadSt' = [loadSt EXCEPT ![post_id] = "idle"]
    /\ pending' = [pending EXCEPT ![post_id] = -1]
    /\ in_progress' = in_progress \ {post_id}
    /\ UNCHANGED <<queue, retry_counts, total_skipped, cached, execQueue,
                   retryThreads, onFailedCalls, calls, dispatched, owed,
                   promoted>>
    /\ stopped' = stopped \ {post_id}
    /\ UNCHANGED <<shutdown, revoked>>
    /\ UNCHANGED nonPreVars

\* delayed_retry after its sleep: under the lock, nothing is done once the
\* preloader is shut down, a post that is in the pending map is left alone,
\* any other is pushed again, demoted.
DelayedRetry(post_id) ==
    /\ retryThreads[post_id] > 0
    /\ retryThreads' = [retryThreads EXCEPT ![post_id] = @ - 1]
    /\ IF shutdown \/ IsPending(pending, post_id)
       THEN UNCHANGED <<queue, pending>>
       ELSE /\ queue' = HeapPush(queue, PreloadTask(PRIORITY_PREFETCH + 10,
                                                    post_id))
            /\ pending' = [pending EXCEPT ![post_id] = PRIORITY_PREFETCH + 10]
    /\ UNCHANGED <<in_progress, retry_counts, total_skipped, cached, execQueue,
                   loadSt, onFailedCalls, calls, dispatched, owed, promoted>>
    /\ UNCHANGED <<shutdown, stopped, revoked>>
    /\ UNCHANGED nonPreVars

Fetching == {p \in PrePosts : loadSt[p] = "loading"}

\* cancel(post_id): a post in the pending map loses its entry and its
\* tasks in the heap, which is rebuilt; a worker that has the post runs on.
PreCancel(post_id) ==
    /\ IsPending(pending, post_id)
    /\ pending' = [pending EXCEPT ![post_id] = -1]
    /\ queue' = Heapify(SelectSeq(queue, LAMBDA t : t.post_id # post_id))
    /\ stopped' = stopped \cup ({post_id} \cap Fetching)
    /\ revoked' = revoked \cup {post_id}
    /\ UNCHANGED <<in_progress, retry_counts, total_skipped, cached, execQueue,
                   loadSt, retryThreads, onFailedCalls, calls, dispatched,
                   owed, promoted, shutdown>>
    /\ UNCHANGED nonPreVars

\* clear_pending(): the heap and the pending map are emptied.
ClearPending ==
    /\ \E p \in PrePosts : IsPending(pending, p)
    /\ queue' = <<>>
    /\ pending' = [p \in PrePosts |-> -1]
    /\ revoked' = PrePosts
    /\ UNCHANGED <<in_progress, retry_counts, total_skipped, cached, execQueue,
                   loadSt, retryThreads, onFailedCalls, calls, dispatched,
                   owed, promoted, shutdown, stopped>>
    /\ UNCHANGED nonPreVars

\* shutdown(wait): the flag is set, the scheduler woken, and the pool shut
\* down with cancel_futures=True: the jobs not yet started are dropped,
\* those running run on.
Shutdown ==
    /\ ~shutdown
    /\ shutdown' = TRUE
    /\ execQueue' = <<>>
    /\ loadSt' = [p \in PrePosts |->
                     IF loadSt[p] = "submitted" THEN "idle" ELSE loadSt[p]]
    /\ stopped' = stopped \cup Fetching
    /\ UNCHANGED <<queue, pending, in_progress, retry_counts, total_skipped,
                   cached, retryThreads, onFailedCalls, calls, dispatched,
                   owed, promoted, revoked>>
    /\ UNCHANGED nonPreVars

PreNext ==
    \/ \E posts \in Batches, priority \in Priorities :
          EnqueueBatch(posts, priority)
    \/ \E post_id \in PrePosts : BoostPriority(post_id)
    \/ SchedulePop
    \/ LoadStart
    \/ \E post_id \in PrePosts, outcome \in {"ok", "permanent", "retryable"} :
          LoadOne(post_id, outcome)
    \/ \E post_id \in PrePosts : LoadFinally(post_id)
    \/ \E post_id \in PrePosts : DelayedRetry(post_id)

(***************************************************************************)

\* The lists of posts passed to preload_batch while tasks are cancelled.
StopBatches == {<<"p1", "p2">>, <<"p2">>}

\* The preloader with its cancel, clear_pending and shutdown calls, the
\* batches arriving at PREFETCH.
PreStopNext ==
    \/ \E posts \in StopBatches : EnqueueBatch(posts, PRIORITY_PREFETCH)
    \/ \E post_id \in PrePosts : BoostPriority(post_id)
    \/ SchedulePop
    \/ LoadStart
    \/ \E post_id \in PrePosts, outcome \in {"ok", "permanent", "retryable"} :
          LoadOne(post_id, outcome)
    \/ \E post_id \in PrePosts : LoadFinally(post_id)
    \/ \E post_id \in PrePosts : DelayedRetry(post_id)
    \/ \E post_id \in PrePosts : PreCancel(post_id)
    \/ ClearPending
    \/ Shutdown

(***************************************************************************)
(* One download task, chunk by chunk: _execute_download and what it calls  *)
(***************************************************************************)
chunk_size == 8192

\* What the server holds for the task's file_url, in chunks of chunk_size
\* bytes.
Content == <<1, 2, 3>>

NoFile == [exists |-> FALSE, bytes |-> <<>>]
File(b) == [exists |-> TRUE, bytes |-> b]

\* stat().st_size.
Size(f) == chunk_size * Len(f.bytes)

Prefixes == {SubSeq(Content, 1, n) : n \in 0..Len(Content)}

\* The file_url of the post: one the validator accepts, none, one it
\* rejects, one on which it raises (a port that does not parse), and one
\* for which _get_file_path raises.
FileUrls == {"valid", "empty", "rejected", "raises", "unsafe_path"}

\* CONFIG.download.retry_delay, in milliseconds.
RetryDelays == {2000, 40000, 250}

NewContext == [range |-> 0, downloaded_size |-> 0, total_size |-> 0,
               file_mode |-> "wb"]

NotSeen == [seen |-> FALSE, requests |-> 0, tmp |-> NoFile, path |-> NoFile]

DlIdle ==
    /\ dlPc = "idle"
    /\ dlAttempt = 0
    /\ tmp_path = NoFile
    /\ path = NoFile
    /\ context = NewContext
    /\ resp = <<>>
    /\ bytes_written = 0
    /\ cancel_token = FALSE
    /\ dlSuccess = FALSE
    /\ published = <<>>
    /\ requestsSent = 0
    /\ lastRequest = [range |-> 0, onDisk |-> 0]
    /\ leftover = [size |-> 0, answer |-> "-"]
    /\ completedBy = "-"
    /\ guardFailed = NotSeen
    /\ cancelSeen = NotSeen
    /\ file_url = "valid"
    /\ registered = TRUE
    /\ on_error_calls = 0
    /\ expected = {}
    /\ redirectsFollowed = 0
    /\ retry_delay = 2000
    /\ waits = <<>>

\* A task is about to run; an earlier run may have left a tmp file, or the
\* final file.
DlInit ==
    /\ dlPc = "idle"
    /\ dlAttempt = 0
    /\ \/ tmp_path = NoFile /\ path \in {NoFile, File(Content)}
       \/ tmp_path \in {File(b) : b \in Prefixes} /\ path = NoFile
    /\ context = NewContext
    /\ resp = <<>>
    /\ bytes_written = 0
    /\ cancel_token = FALSE
    /\ dlSuccess = FALSE
    /\ published = <<>>
    /\ requestsSent = 0
    /\ lastRequest = [range |-> 0, onDisk |-> 0]
    /\ leftover = [size |-> 0, answer |-> "-"]
    /\ completedBy = "-"
    /\ guardFailed = NotSeen
    /\ cancelSeen = NotSeen
    /\ file_url \in FileUrls
    /\ registered = TRUE
    /\ on_error_calls = 0
    /\ expected = {}
    /\ redirectsFollowed = 0
    /\ retry_delay \in RetryDelays
    /\ waits = <<>>

\* A check of cancel_token.is_cancelled has found it set.
SeeCancel ==
    IF cancelSeen.seen THEN cancelSeen
    ELSE [seen |-> TRUE, requests |-> requestsSent, tmp |-> tmp_path,
          path |-> path]

\* The caller, cancel_download, cancel_all or shutdown sets the token.
DlCancel ==
    /\ dlPc \notin {"done", "escaped"}
    /\ ~cancel_token
    /\ cancel_token' = TRUE
    /\ UNCHANGED <<dlPc, dlAttempt, tmp_path, path, context, resp,
                   bytes_written, dlSuccess, published, requestsSent,
                   lastRequest, leftover, completedBy, guardFailed,
                   cancelSeen, file_url, registered, on_error_calls,
                   expected, redirectsFollowed, retry_delay, waits>>
    /\ UNCHANGED nonDlVars

\* _execute_download up to _do_download: no URL or one the validator rejects
\* ends the task in failure, and so does a path error; an exception of the
\* validator leaves _execute_download; a final file that exists already ends
\* the task in success.
ExecuteDownload ==
    /\ dlPc = "idle"
    /\ CASE file_url \in {"empty", "rejected", "unsafe_path"} ->
              /\ dlPc' = "finish"
              /\ UNCHANGED <<dlSuccess, completedBy>>
         [] file_url = "raises" ->
              /\ dlPc' = "escaped"
              /\ UNCHANGED <<dlSuccess, completedBy>>
         [] file_url = "valid" /\ path.exists ->
              /\ dlPc' = "finish"
              /\ dlSuccess' = TRUE
              /\ completedBy' = "exists"
         [] OTHER ->
              /\ dlPc' = "attempt"
              /\ UNCHANGED <<dlSuccess, completedBy>>
    /\ UNCHANGED <<dlAttempt, tmp_path, path, context, resp, bytes_written,
                   cancel_token, published, requestsSent, lastRequest,
                   leftover, guardFailed, cancelSeen, file_url,
                   registered, on_error_calls, expected,
                   redirectsFollowed, retry_delay, waits>>
    /\ UNCHANGED nonDlVars

\* The head of _do_download's loop: the token is checked, a new context is
\* made and _prepare_resume reads the size of the tmp file.
AttemptStart ==
    /\ dlPc = "attempt"
    /\ IF cancel_token
       THEN /\ dlPc' = "finish"
            /\ dlSuccess' = FALSE
            /\ cancelSeen' = SeeCancel
            /\ UNCHANGED context
       ELSE /\ dlPc' = "request"
            /\ context' = [NewContext EXCEPT
                              !.downloaded_size = Size(tmp_path),
                              !.range = Size(tmp_path)]
            /\ UNCHANGED <<dlSuccess, cancelSeen>>
    /\ UNCHANGED <<dlAttempt, tmp_path, path, resp, bytes_written,
                   cancel_token, published, requestsSent, lastRequest,
                   leftover, completedBy, guardFailed, file_url,
                   registered, on_error_calls, expected,
                   redirectsFollowed, retry_delay, waits>>
    /\ UNCHANGED nonDlVars

\* What a server that holds Content may answer to a GET with
\* Range: bytes=k- (k = 0: no Range header): 206 with the rest, 200 with
\* everything when it ignores the header, 416 (past the end, or whenever it
\* chooses to), a redirect; or the request fails.
Answers(k) ==
    {"error", "200", "3xx"}
    \cup (IF k = 0 \/ k >= chunk_size * Len(Content) THEN {"416"} ELSE {})
    \cup (IF k > 0 /\ k < chunk_size * Len(Content) THEN {"206"} ELSE {})

Body(status, k) ==
    IF status = "206"
    THEN SubSeq(Content, (k \div chunk_size) + 1, Len(Content))
    ELSE Content

\* The Content-Length header of an answer with this body: absent (0), the
\* length of the body, or a smaller number (the length of a compressed body
\* that requests decompresses).
Declarations == {"none", "exact", "short"}

ContentLength(declared, body) ==
    CASE declared = "none" -> 0
      [] declared = "exact" -> chunk_size * Len(body)
      [] OTHER -> chunk_size * (Len(body) - 1)

\* A retry handler that never gives up.
AlwaysRetry == "backoff"

\* An exception reaches _do_download's except clause: the first part of
\* _handle_retry_exception.
Raised ==
    IF dlAttempt >= MaxRetries - 1 THEN "finish" ELSE "backoff"

\* The attempt ends in an exception, the tmp file being tmpNow.
Raise(tmpNow) ==
    /\ dlPc' = Raised
    /\ dlSuccess' = FALSE
    /\ leftover' = [size |-> Size(tmpNow), answer |-> "-"]

\* _send_request from the status test on lines 488-495 to its end: the file
\* mode, Content-Length and the disk-space guard.  downloaded: what
\* context["downloaded_size"] holds on entry; spaceOk: what
\* _check_disk_space returns.
HandleResponse(status, downloaded, declared, spaceOk, answered) ==
    IF status \notin {"200", "206"}
    THEN /\ dlPc' = Raised
         /\ dlSuccess' = FALSE
         /\ leftover' = answered
         /\ context' = [context EXCEPT !.downloaded_size = downloaded]
         /\ UNCHANGED <<resp, guardFailed, expected>>
    ELSE LET body == Body(status, context.range)
             kept == IF status = "200" THEN 0 ELSE downloaded
             length == ContentLength(declared, body)
             total == IF length # 0 THEN length + kept ELSE 0
         IN /\ context' = [context EXCEPT
                              !.file_mode = IF status = "206" THEN "ab"
                                            ELSE "wb",
                              !.downloaded_size = kept,
                              !.total_size = total]
            /\ expected' = IF total # 0 THEN expected \cup {total}
                           ELSE expected
            /\ leftover' = answered
            /\ IF total # 0 /\ ~spaceOk
               THEN /\ dlPc' = Raised
                    /\ dlSuccess' = FALSE
                    /\ guardFailed' =
                          IF guardFailed.seen THEN guardFailed
                          ELSE [seen |-> TRUE,
                                requests |-> requestsSent + 1,
                                tmp |-> tmp_path, path |-> path]
                    /\ UNCHANGED resp
               ELSE /\ dlPc' = "open"
                    /\ resp' = body
                    /\ UNCHANGED <<dlSuccess, guardFailed>>

\* _send_request: the GET of line 459, sent with allow_redirects=False, and
\* what follows it; a 416 is the end of the download when the tmp file holds
\* something and leads to a second GET when it does not.
SendRequest(status, declared, spaceOk) ==
    /\ dlPc = "request"
    /\ status \in Answers(context.range)
    /\ requestsSent' = requestsSent + 1
    /\ lastRequest' = [range |-> context.range, onDisk |-> Size(tmp_path)]
    /\ LET answered == IF leftover.size > 0 /\ leftover.answer = "-"
                       THEN [leftover EXCEPT !.answer = status] ELSE leftover
       IN CASE status = "error" ->
                 /\ Raise(tmp_path)
                 /\ UNCHANGED <<tmp_path, path, context, resp, completedBy,
                                guardFailed, expected>>
            [] status = "416" /\ tmp_path.exists /\ Size(tmp_path) > 0 ->
                 /\ path' = File(tmp_path.bytes)
                 /\ tmp_path' = NoFile
                 /\ dlPc' = "finish"
                 /\ dlSuccess' = TRUE
                 /\ completedBy' = "416"
                 /\ leftover' = answered
                 /\ UNCHANGED <<context, resp, guardFailed, expected>>
            [] status = "416" ->
                 /\ dlPc' = "reissue"
                 /\ context' = [context EXCEPT !.downloaded_size = 0]
                 /\ leftover' = answered
                 /\ UNCHANGED <<tmp_path, path, resp, completedBy,
                                guardFailed, expected, dlSuccess>>
            [] OTHER ->
                 /\ HandleResponse(status, context.downloaded_size,
                                   declared, spaceOk, answered)
                 /\ UNCHANGED <<tmp_path, path, completedBy>>
    /\ UNCHANGED <<dlAttempt, bytes_written, cancel_token, published,
                   cancelSeen, file_url, registered, on_error_calls,
                   redirectsFollowed, retry_delay, waits>>
    /\ UNCHANGED nonDlVars

\* _send_request, the GET of line 481 after a 416 for an empty tmp file: no
\* Range header and no allow_redirects argument, so a redirect is followed
\* and its target's answer is the response.
Reissue(status, declared, spaceOk) ==
    /\ dlPc = "reissue"
    /\ status \in {"error", "200", "3xx", "416"}
    /\ requestsSent' = requestsSent + 1
    /\ lastRequest' = [range |-> 0, onDisk |-> Size(tmp_path)]
    /\ LET followed == status = "3xx"
           final == IF followed THEN "200" ELSE status
       IN /\ redirectsFollowed' = IF followed THEN redirectsFollowed + 1
                                  ELSE redirectsFollowed
          /\ IF final = "error"
             THEN /\ Raise(tmp_path)
                  /\ UNCHANGED <<context, resp, guardFailed, expected>>
             ELSE HandleResponse(final, 0, declared, spaceOk, leftover)
    /\ UNCHANGED <<dlAttempt, tmp_path, path, bytes_written, cancel_token,
                   published, completedBy, cancelSeen, file_url,
                   registered, on_error_calls, retry_delay, waits>>
    /\ UNCHANGED nonDlVars

\* open(f, file_mode): "wb" creates or truncates, "ab" creates or keeps.
OpenedAppending(file_mode, f) == File(f.bytes)

OpenedFile(file_mode, f) ==
    IF file_mode = "wb" THEN File(<<>>) ELSE File(f.bytes)

\* _write_chunks: open(tmp_path, file_mode).
OpenTmp ==
    /\ dlPc = "open"
    /\ tmp_path' = OpenedFile(context.file_mode, tmp_path)
    /\ bytes_written' = 0
    /\ dlPc' = "stream"
    /\ UNCHANGED <<dlAttempt, path, context, resp, cancel_token, dlSuccess,
                   published, requestsSent, lastRequest, leftover,
                   completedBy, guardFailed, cancelSeen, file_url,
                   registered, on_error_calls, expected,
                   redirectsFollowed, retry_delay, waits>>
    /\ UNCHANGED nonDlVars

\* _write_chunks: iter_content yields a chunk; the token is checked, the
\* chunk written and the size compared with the declared one.
WriteChunk ==
    /\ dlPc = "stream"
    /\ resp # <<>>
    /\ IF cancel_token
       THEN /\ Raise(tmp_path)
            /\ cancelSeen' = SeeCancel
            /\ UNCHANGED <<tmp_path, resp, bytes_written>>
       ELSE /\ tmp_path' = File(Append(tmp_path.bytes, Head(resp)))
            /\ resp' = Tail(resp)
            /\ bytes_written' = bytes_written + chunk_size
            /\ IF /\ context.total_size # 0
                  /\ context.downloaded_size + bytes_written + chunk_size
                        > context.total_size + 5 * 1024
               THEN Raise(tmp_path')
               ELSE UNCHANGED <<dlPc, dlSuccess, leftover>>
            /\ UNCHANGED cancelSeen
    /\ UNCHANGED <<dlAttempt, path, context, cancel_token, published,
                   requestsSent, lastRequest, completedBy, guardFailed,
                   file_url, registered, on_error_calls, expected,
                   redirectsFollowed, retry_delay, waits>>
    /\ UNCHANGED nonDlVars

\* _write_chunks: iter_content raises (the connection broke, or the read
\* timed out).
StreamError ==
    /\ dlPc = "stream"
    /\ Raise(tmp_path)
    /\ UNCHANGED <<dlAttempt, tmp_path, path, context, resp, bytes_written,
                   cancel_token, published, requestsSent, lastRequest,
                   completedBy, guardFailed, cancelSeen, file_url,
                   registered, on_error_calls, expected,
                   redirectsFollowed, retry_delay, waits>>
    /\ UNCHANGED nonDlVars

\* _write_chunks: iter_content is exhausted, after the last chunk or, the
\* connection having closed early without an error, before it.
StreamEnd ==
    /\ dlPc = "stream"
    /\ dlPc' = "verify"
    /\ UNCHANGED <<dlAttempt, tmp_path, path, context, resp, bytes_written,
                   cancel_token, dlSuccess, published, requestsSent,
                   lastRequest, leftover, completedBy, guardFailed,
                   cancelSeen, file_url, registered, on_error_calls,
                   expected, redirectsFollowed, retry_delay, waits>>
    /\ UNCHANGED nonDlVars

\* _verify_and_finalize.
VerifyAndFinalize ==
    /\ dlPc = "verify"
    /\ IF context.total_size # 0 /\ Size(tmp_path) < context.total_size
       THEN /\ Raise(tmp_path)
            /\ UNCHANGED <<tmp_path, path, completedBy>>
       ELSE /\ path' = File(tmp_path.bytes)
            /\ tmp_path' = NoFile
            /\ dlPc' = "finish"
            /\ dlSuccess' = TRUE
            /\ completedBy' = IF context.total_size # 0 THEN "verified"
                              ELSE "unverified"
            /\ UNCHANGED leftover
    /\ UNCHANGED <<dlAttempt, context, resp, bytes_written, cancel_token,
                   published, requestsSent, lastRequest, guardFailed,
                   cancelSeen, file_url, registered, on_error_calls,
                   expected, redirectsFollowed, retry_delay, waits>>
    /\ UNCHANGED nonDlVars

RECURSIVE Pow2(_)
Pow2(n) == IF n = 0 THEN 1 ELSE 2 * Pow2(n - 1)

Min(a, b) == IF a < b THEN a ELSE b

\* delay = min(retry_delay * 2 ** attempt, 60), in milliseconds.
Delay(k) == Min(retry_delay * Pow2(k), 60000)

\* int(delay * 10): the passes of the wait loop, each a check of the token
\* and a sleep of a tenth of a second.
WaitPasses(delay) == delay \div 100

\* The wait of _handle_retry_exception: it ends early when a pass finds the
\* token set, and otherwise the loop goes to its next attempt after the last
\* pass.
RetryWait ==
    /\ dlPc = "backoff"
    /\ \/ /\ cancel_token
          /\ WaitPasses(Delay(dlAttempt)) > 0
          /\ cancelSeen' = SeeCancel
          /\ dlPc' = "finish"
          /\ UNCHANGED <<dlAttempt, waits>>
       \/ /\ dlAttempt' = dlAttempt + 1
          /\ dlPc' = "attempt"
          /\ waits' = Append(waits, 100 * WaitPasses(Delay(dlAttempt)))
          /\ UNCHANGED cancelSeen
    /\ UNCHANGED <<tmp_path, path, context, resp, bytes_written, cancel_token,
                   dlSuccess, published, requestsSent, lastRequest,
                   leftover, completedBy, guardFailed, file_url,
                   registered, on_error_calls, expected,
                   redirectsFollowed, retry_delay>>
    /\ UNCHANGED nonDlVars

\* The event _finish_download publishes: CANCELLED only for a failure.
EventAlwaysFailed(success, is_cancelled) ==
    IF success THEN "COMPLETED" ELSE "FAILED"

TerminalEvent(success, is_cancelled) ==
    IF success THEN "COMPLETED"
    ELSE IF is_cancelled THEN "CANCELLED" ELSE "FAILED"

\* _finish_download: the task leaves the active set and the task map, the
\* callback runs and the event is published.
FinishDownload ==
    /\ dlPc = "finish"
    /\ registered' = FALSE
    /\ on_error_calls' = IF dlSuccess THEN on_error_calls
                         ELSE on_error_calls + 1
    /\ published' = Append(published, TerminalEvent(dlSuccess, cancel_token))
    /\ dlPc' = "done"
    /\ UNCHANGED <<dlAttempt, tmp_path, path, context, resp, bytes_written,
                   cancel_token, dlSuccess, requestsSent, lastRequest,
                   leftover, completedBy, guardFailed, cancelSeen,
                   file_url, expected, redirectsFollowed, retry_delay,
                   waits>>
    /\ UNCHANGED nonDlVars

\* The steps of the pool thread that runs the task.
DlWorker ==
    \/ ExecuteDownload
    \/ AttemptStart
    \/ \E status \in {"error", "200", "206", "3xx", "416"},
          declared \in Declarations, spaceOk \in BOOLEAN :
          SendRequest(status, declared, spaceOk)
    \/ \E status \in {"error", "200", "3xx", "416"},
          declared \in Declarations, spaceOk \in BOOLEAN :
          Reissue(status, declared, spaceOk)
    \/ OpenTmp
    \/ WriteChunk
    \/ StreamError
    \/ StreamEnd
    \/ VerifyAndFinalize
    \/ RetryWait
    \/ FinishDownload

DlNext == DlCancel \/ DlWorker

(***************************************************************************)
(* DownloadManager: cancel_download and cancel_all                         *)
(***************************************************************************)
\* The reasons callers pass: cancel_download's default, another caller's
\* text, and cancel_all's default.
Reasons == {"user", "closing", "batch"}

NoTask == [present |-> FALSE, is_cancelled |-> FALSE, reason |-> "None"]

\* CancellationToken(): the event clear, reason None.
NewToken == [present |-> TRUE, is_cancelled |-> FALSE, reason |-> "None"]

NoCall == [op |-> "-", ret |-> 0, changed |-> 0, reasonsKept |-> TRUE]

CtIdle ==
    /\ tokenOf = [p \in Posts |-> NoTask]
    /\ lastCancel = NoCall

\* CancellationToken.cancel(reason).
Cancel(token, reason) ==
    [token EXCEPT !.is_cancelled = TRUE, !.reason = reason]

\* What a call made of the tokens: how many it set, and whether every token
\* that was set before kept its reason.
Changed(before, after) ==
    Cardinality({p \in Posts :
                    after[p].is_cancelled /\ ~before[p].is_cancelled})

ReasonsKept(before, after) ==
    \A p \in Posts :
        before[p].is_cancelled => after[p].reason = before[p].reason

\* submit_download, its locked part: a new task and token for a post that
\* has none.
CtSubmit(p) ==
    /\ ~tokenOf[p].present
    /\ tokenOf' = [tokenOf EXCEPT ![p] = NewToken]
    /\ UNCHANGED lastCancel
    /\ UNCHANGED nonCtVars

\* _finish_download: the task leaves _tasks.
CtFinish(p) ==
    /\ tokenOf[p].present
    /\ tokenOf' = [tokenOf EXCEPT ![p] = NoTask]
    /\ UNCHANGED lastCancel
    /\ UNCHANGED nonCtVars

\* cancel_download(post_id, reason).
CancelDownloadCall(p, reason) ==
    LET after == IF tokenOf[p].present
                 THEN [tokenOf EXCEPT ![p] = Cancel(@, reason)]
                 ELSE tokenOf
    IN /\ tokenOf' = after
       /\ lastCancel' = [op |-> "cancel_download",
                         ret |-> IF tokenOf[p].present THEN 1 ELSE 0,
                         changed |-> Changed(tokenOf, after),
                         reasonsKept |-> ReasonsKept(tokenOf, after)]
       /\ UNCHANGED nonCtVars

\* cancel_all(reason).
CancelAllCall(reason) ==
    LET hit == {p \in Posts :
                   tokenOf[p].present /\ ~tokenOf[p].is_cancelled}
        after == [p \in Posts |->
                     IF p \in hit THEN Cancel(tokenOf[p], reason)
                     ELSE tokenOf[p]]
    IN /\ tokenOf' = after
       /\ lastCancel' = [op |-> "cancel_all",
                         ret |-> Cardinality(hit),
                         changed |-> Changed(tokenOf, after),
                         reasonsKept |-> ReasonsKept(tokenOf, after)]
       /\ UNCHANGED nonCtVars

CtNext ==
    \/ \E p \in Posts : CtSubmit(p)
    \/ \E p \in Posts : CtFinish(p)
    \/ \E p \in Posts, reason \in Reasons : CancelDownloadCall(p, reason)
    \/ \E reason \in Reasons : CancelAllCall(reason)

(***************************************************************************)
(* SessionManager                                                          *)
(***************************************************************************)
Callers == {"t1", "t2"}

\* The methods that start with _check_closed(), and those that do not.
RequestMethods == {"get", "post", "head", "request"}

ConfigMethods == {"update_headers", "set_proxy"}

Resting == [method |-> "-", at |-> "idle"]

SmInit ==
    /\ closed = FALSE
    /\ sessionLock = "-"
    /\ callPc = [t \in Callers |-> Resting]
    /\ sessionCloses = 0
    /\ closeReturned = FALSE
    /\ ranAfterClose = {}

\* get / post / head / request, the first statement: _check_closed() raises
\* ValueError when _closed is set; otherwise the call goes on to the lock.
CheckClosed(t, m) ==
    /\ callPc[t].at = "idle"
    /\ m \in RequestMethods
    /\ callPc' = IF closed THEN callPc
                 ELSE [callPc EXCEPT ![t] = [method |-> m, at |-> "checked"]]
    /\ UNCHANGED <<closed, sessionLock, sessionCloses, closeReturned,
                   ranAfterClose>>
    /\ UNCHANGED nonSmVars

\* get / post / head / request: `with self._lock` is entered and the request
\* handed to the requests.Session.
SendLocked(t) ==
    /\ callPc[t].at = "checked"
    /\ sessionLock = "-"
    /\ sessionLock' = t
    /\ callPc' = [callPc EXCEPT ![t].at = "sending"]
    /\ ranAfterClose' = IF closeReturned
                        THEN ranAfterClose \cup {callPc[t].method}
                        ELSE ranAfterClose
    /\ UNCHANGED <<closed, sessionCloses, closeReturned>>
    /\ UNCHANGED nonSmVars

\* The request is over (a response or an exception of requests): the lock is
\* released.
SendReturn(t) ==
    /\ callPc[t].at = "sending"
    /\ sessionLock' = "-"
    /\ callPc' = [callPc EXCEPT ![t] = Resting]
    /\ UNCHANGED <<closed, sessionCloses, closeReturned, ranAfterClose>>
    /\ UNCHANGED nonSmVars

\* update_headers / set_proxy: the whole body runs under the lock, with no
\* look at _closed.
Configure(t, m) ==
    /\ callPc[t].at = "idle"
    /\ m \in ConfigMethods
    /\ sessionLock = "-"
    /\ ranAfterClose' = IF closeReturned THEN ranAfterClose \cup {m}
                        ELSE ranAfterClose
    /\ UNCHANGED <<closed, sessionLock, callPc, sessionCloses, closeReturned>>
    /\ UNCHANGED nonSmVars

\* close(): under the lock, the first call sets _closed and closes the
\* requests.Session.
Close(t) ==
    /\ callPc[t].at = "idle"
    /\ sessionLock = "-"
    /\ closed' = TRUE
    /\ sessionCloses' = IF closed THEN sessionCloses ELSE sessionCloses + 1
    /\ closeReturned' = TRUE
    /\ UNCHANGED <<sessionLock, callPc, ranAfterClose>>
    /\ UNCHANGED nonSmVars

SmNext ==
    \/ \E t \in Callers, m \in RequestMethods : CheckClosed(t, m)
    \/ \E t \in Callers : SendLocked(t)
    \/ \E t \in Callers : SendReturn(t)
    \/ \E t \in Callers, m \in ConfigMethods : Configure(t, m)
    \/ \E t \in Callers : Close(t)

(***************************************************************************)
(* UrlValidator                                                            *)
(***************************************************************************)
\* CONFIG.allowed_schemes and CONFIG.allowed_hosts, hosts as label sequences.
allowed_schemes == {"https"}

allowed_hosts == {<<"yande", "re">>, <<"files", "yande", "re">>}

\* IPv4 addresses as four octets; NoAddress: the text is not an address.
NoAddress == <<>>

\* The hosts of the URLs: the lower-cased labels of parsed.hostname and what
\* ipaddress.ip_address makes of the text.
Host(labels, ip) == [labels |-> labels, ip |-> ip]

Hosts ==
    {Host(<<"yande", "re">>, NoAddress),
     Host(<<"files", "yande", "re">>, NoAddress),
     Host(<<"notyande", "re">>, NoAddress),
     Host(<<"yande", "re", "evil", "com">>, NoAddress),
     Host(<<"127", "0", "0", "1">>, <<127, 0, 0, 1>>),
     Host(<<>>, NoAddress)}

\* The text after the colon of the netloc ("": no port), and what the port
\* property of the parse result makes of it.
PortTexts == {"", "0", "22", "443", "6379", "99999", "abc"}

PortNumber(text) ==
    CASE text = "0" -> 0
      [] text = "22" -> 22
      [] text = "443" -> 443
      [] text = "6379" -> 6379
      [] text = "99999" -> 99999
      [] OTHER -> -1

\* parsed.port: None (as "None") without a port, ValueError for a text that
\* is not a number or is out of range, the number otherwise.
ParsedPort(text) ==
    IF text = "" THEN "None"
    ELSE IF PortNumber(text) < 0 \/ PortNumber(text) > 65535
         THEN "ValueError"
         ELSE "int"

BLOCKED_PORTS == {22, 23, 25, 445, 3389, 6379, 27017}

Schemes == {"https", "http", "file"}

Urls == [scheme : Schemes, host : Hosts, port : PortTexts]

\* getaddrinfo's answers: gaierror, or the addresses of the host.
Answer(gaierror, ips) == [gaierror |-> gaierror, ips |-> ips]

DnsAnswers ==
    {Answer(TRUE, <<>>),
     Answer(FALSE, <<<<198, 51, 100, 7>>>>),
     Answer(FALSE, <<<<10, 0, 0, 5>>>>),
     Answer(FALSE, <<<<198, 51, 100, 7>>, <<192, 168, 1, 1>>>>)}

\* _is_private_ip for an IPv4 address: membership in PRIVATE_NETWORKS.
IsPrivateIp(ip) ==
    /\ ip # NoAddress
    /\ \/ ip[1] = 10
       \/ ip[1] = 172 /\ ip[2] \in 16..31
       \/ ip[1] = 192 /\ ip[2] = 168
       \/ ip[1] = 127
       \/ ip[1] = 169 /\ ip[2] = 254

\* host == h or host.endswith("." + h), on label sequences.
IsSubdomainOrEqual(labels, h) ==
    /\ Len(labels) >= Len(h)
    /\ SubSeq(labels, Len(labels) - Len(h) + 1, Len(labels)) = h

\* _is_host_allowed.
IsHostAllowed(host) ==
    /\ host.labels # <<>>
    /\ \E h \in allowed_hosts : IsSubdomainOrEqual(host.labels, h)

\* _check_not_private with resolve_dns: the literal, then every resolved
\* address (the literal itself when the host is an address); a host that
\* does not resolve passes.
CheckNotPrivate(host, answer) ==
    /\ ~IsPrivateIp(host.ip)
    /\ LET resolved_ips == IF host.ip # NoAddress THEN <<host.ip>>
                           ELSE IF answer.gaierror THEN <<>>
                           ELSE answer.ips
       IN \A i \in 1..Len(resolved_ips) : ~IsPrivateIp(resolved_ips[i])

\* validate(url), in the order of its checks: scheme, port, host, private
\* addresses.
Validate(u, answer) ==
    IF u.scheme \notin allowed_schemes THEN "False"
    ELSE IF ParsedPort(u.port) = "ValueError" THEN "ValueError"
    ELSE IF /\ ParsedPort(u.port) = "int"
            /\ PortNumber(u.port) # 0
            /\ PortNumber(u.port) \in BLOCKED_PORTS
         THEN "False"
    ELSE IF ~IsHostAllowed(u.host) THEN "False"
    ELSE IF ~CheckNotPrivate(u.host, answer) THEN "False"
    ELSE "True"

UvIdle ==
    /\ url = [scheme |-> "https", host |-> Host(<<>>, NoAddress), port |-> ""]
    /\ dns = Answer(TRUE, <<>>)
    /\ verdict = "-"

UvInit ==
    /\ url \in Urls
    /\ dns \in DnsAnswers
    /\ verdict = "-"

\* A call of validate(url).
ValidateCall ==
    /\ verdict = "-"
    /\ verdict' = Validate(url, dns)
    /\ UNCHANGED <<url, dns>>
    /\ UNCHANGED nonUvVars

UvNext == ValidateCall

(***************************************************************************)
(* The preloader's heap, task by task: _enqueue_batch and _schedule_loop   *)
(***************************************************************************)
MaxQueued == 4

\* PreloadTask with its field created_at, here the rank of the task among
\* those made; post_id and created_at take no part in comparisons.
Stamped(priority, post_id, created_at) ==
    [priority |-> priority, post_id |-> post_id, created_at |-> created_at]

NoPop == [task |-> Stamped(-1, 0, 0), left |-> {}]

SqIdle ==
    /\ schedQueue = <<>>
    /\ created = 0
    /\ lastPop = NoPop

\* The loop of _enqueue_batch over n posts that are neither cached nor
\* pending nor in progress, the first of them being post number first.
RECURSIVE PushEach(_, _, _, _)
PushEach(heap, first, n, priority) ==
    IF n = 0 THEN heap
    ELSE PushEach(HeapPush(heap, Stamped(priority, first, first)),
                  first + 1, n - 1, priority)

\* preload_next_page / preload_batch with n new posts.
SchedEnqueue(n, priority) ==
    /\ created + n <= MaxQueued
    /\ schedQueue' = PushEach(schedQueue, created + 1, n, priority)
    /\ created' = created + n
    /\ UNCHANGED lastPop
    /\ UNCHANGED nonSqVars

\* _schedule_loop: heapq.heappop under the condition's lock.
SchedPop ==
    /\ schedQueue # <<>>
    /\ lastPop' = [task |-> schedQueue[1],
                   left |-> {schedQueue[i] : i \in 2..Len(schedQueue)}]
    /\ schedQueue' = HeapPop(schedQueue)
    /\ UNCHANGED created
    /\ UNCHANGED nonSqVars

SqNext ==
    \/ \E n \in 1..MaxQueued,
          priority \in {PRIORITY_NEXT_PAGE, PRIORITY_PREFETCH} :
          SchedEnqueue(n, priority)
    \/ SchedPop

(***************************************************************************)
(* The files of one post: successive submissions of the same post_id       *)
(***************************************************************************)
Ratings == {"s", "q", "e", "other"}

\* The sanitised tags of the post, as the descriptors submitted give them.
TagTexts == {"tag_a", "tag_b"}

NoTarget == [folder |-> "-", filename |-> <<>>]

\* _get_file_path: the folder by rating, the file name from the id and
\* the tags.
GetFilePath(rating, tags) ==
    [folder |-> CASE rating = "s" -> "Safe"
                  [] rating = "q" -> "Questionable"
                  [] rating = "e" -> "Explicit"
                  [] OTHER -> "Questionable",
     filename |-> <<"id", tags>>]

FpIdle ==
    /\ finals = {}
    /\ tmps = {}
    /\ target = NoTarget

\* submit_download and the head of _execute_download for a post that has
\* no task: a final file at the path of this descriptor completes the task
\* at once, otherwise the download to path.tmp begins.
FpSubmit(rating, tags) ==
    /\ target = NoTarget
    /\ LET file_path == GetFilePath(rating, tags)
       IN target' = IF file_path \in finals THEN NoTarget ELSE file_path
    /\ UNCHANGED <<finals, tmps>>
    /\ UNCHANGED nonFpVars

\* _write_chunks opens tmp_path.
FpOpenTmp ==
    /\ target # NoTarget
    /\ tmps' = tmps \cup {target}
    /\ UNCHANGED <<finals, target>>
    /\ UNCHANGED nonFpVars

\* The task ends without a final file (failure or cancellation); whatever
\* was written stays in tmp_path.
FpGiveUp ==
    /\ target # NoTarget
    /\ target' = NoTarget
    /\ UNCHANGED <<finals, tmps>>
    /\ UNCHANGED nonFpVars

\* _verify_and_finalize: tmp_path is renamed to path.
FpFinalize ==
    /\ target \in tmps
    /\ tmps' = tmps \ {target}
    /\ finals' = finals \cup {target}
    /\ target' = NoTarget
    /\ UNCHANGED nonFpVars

FpNext ==
    \/ \E rating \in Ratings, tags \in TagTexts : FpSubmit(rating, tags)
    \/ FpOpenTmp
    \/ FpGiveUp
    \/ FpFinalize

(***************************************************************************)
(* DownloadManager._lock, user callbacks and event subscribers             *)
(***************************************************************************)
MaxNesting == 2
MaxLkCalls == 2

\* The pool thread that runs a task and a thread of the application.
LkThreads == {"worker", "caller"}

\* A _finish_download that notifies before it leaves the with block.
FinishOpsUnderLock == <<"acquire", "callback", "publish", "release">>

\* _finish_download: the with block, then on_complete / on_error, then
\* EVENT_BUS.publish of the terminal event.
FinishOps == <<"acquire", "release", "callback", "publish">>

\* submit_download: the with block, then EVENT_BUS.publish of STARTED.
SubmitOps == <<"acquire", "release", "publish">>

\* cancel_download, cancel_all and get_status: one with block;
\* CancellationToken.cancel sets a field and an Event.
LockedOps == <<"acquire", "release">>

\* _write_chunks calls on_progress between two chunks.
WriteChunksOps == <<"callback">>

Ops(method) ==
    CASE method = "_finish_download" -> FinishOps
      [] method = "submit_download" -> SubmitOps
      [] method = "_write_chunks" -> WriteChunksOps
      [] OTHER -> LockedOps

\* The methods a callback or a subscriber may call on the manager.
Reentrant == {"submit_download", "cancel_download", "cancel_all", "get_status"}

TopCalls(th) ==
    IF th = "worker" THEN {"_finish_download", "_write_chunks"} ELSE Reentrant

Frame(method, at) == [method |-> method, at |-> at]

LkIdle ==
    /\ dmLock = "free"
    /\ frames = [th \in LkThreads |-> <<>>]
    /\ lkCalls = [th \in LkThreads |-> 0]

Top(th) == frames[th][Len(frames[th])]

\* The operation thread th is at: "-" when it is in no call, "return" at
\* the end of a body.
OpOf(th) ==
    IF frames[th] = <<>> THEN "-"
    ELSE IF Top(th).at > Len(Ops(Top(th).method)) THEN "return"
    ELSE Ops(Top(th).method)[Top(th).at]

Advanced(th) == [frames[th] EXCEPT ![Len(frames[th])].at = @ + 1]

\* A thread calls into the manager.
LkCall(th, method) ==
    /\ frames[th] = <<>>
    /\ lkCalls[th] < MaxLkCalls
    /\ method \in TopCalls(th)
    /\ frames' = [frames EXCEPT ![th] = <<Frame(method, 1)>>]
    /\ lkCalls' = [lkCalls EXCEPT ![th] = @ + 1]
    /\ UNCHANGED dmLock
    /\ UNCHANGED nonLkVars

\* with self._lock: threading.Lock is not reentrant, the thread goes on
\* only when nobody, itself included, holds the lock.
LkAcquire(th) ==
    /\ OpOf(th) = "acquire"
    /\ dmLock = "free"
    /\ dmLock' = th
    /\ frames' = [frames EXCEPT ![th] = Advanced(th)]
    /\ UNCHANGED lkCalls
    /\ UNCHANGED nonLkVars

\* The end of the with block.
LkRelease(th) ==
    /\ OpOf(th) = "release"
    /\ dmLock' = "free"
    /\ frames' = [frames EXCEPT ![th] = Advanced(th)]
    /\ UNCHANGED lkCalls
    /\ UNCHANGED nonLkVars

\* The callback or the subscribers return without calling the manager.
LkNotify(th) ==
    /\ OpOf(th) \in {"callback", "publish"}
    /\ frames' = [frames EXCEPT ![th] = Advanced(th)]
    /\ UNCHANGED <<dmLock, lkCalls>>
    /\ UNCHANGED nonLkVars

\* The callback or a subscriber calls a method of the same manager.
LkNotifyCalls(th, method) ==
    /\ OpOf(th) \in {"callback", "publish"}
    /\ Len(frames[th]) < MaxNesting
    /\ method \in Reentrant
    /\ frames' = [frames EXCEPT ![th] = Append(Advanced(th), Frame(method, 1))]
    /\ UNCHANGED <<dmLock, lkCalls>>
    /\ UNCHANGED nonLkVars

\* A call returns.
LkReturn(th) ==
    /\ OpOf(th) = "return"
    /\ frames' = [frames EXCEPT ![th] = SubSeq(@, 1, Len(@) - 1)]
    /\ UNCHANGED <<dmLock, lkCalls>>
    /\ UNCHANGED nonLkVars

LkNext ==
    \/ \E th \in LkThreads, method \in Reentrant \cup {"_finish_download",
                                                      "_write_chunks"} :
          LkCall(th, method)
    \/ \E th \in LkThreads : LkAcquire(th)
    \/ \E th \in LkThreads : LkRelease(th)
    \/ \E th \in LkThreads : LkNotify(th)
    \/ \E th \in LkThreads, method \in Reentrant : LkNotifyCalls(th, method)
    \/ \E th \in LkThreads : LkReturn(th)

(***************************************************************************)
(* LRUCache of closable values                                             *)
(***************************************************************************)
MaxValues == 4

ValThreads == {"t1", "t2"}

ValKeys == {"k1", "k2"}

\* The value objects are 1..MaxValues; this names none of them.
NoValue == MaxValues + 1

Item(k, v) == [key |-> k, val |-> v]

KeysOf(items) == {items[i].key : i \in 1..Len(items)}

ValsOf(items) == {items[i].val : i \in 1..Len(items)}

\* self._cache[key]
ValueOf(items, k) ==
    items[CHOOSE i \in 1..Len(items) : items[i].key = k].val

\* OrderedDict.move_to_end(key) on the items.
ItemToEnd(items, k) ==
    Append(SelectSeq(items, LAMBDA it : it.key # k), Item(k, ValueOf(items, k)))

\* self._cache[key] = value: the value of a key that is present is replaced
\* where it stands, a new key goes to the end.
ItemAssign(items, k, v) ==
    IF k \in KeysOf(items)
    THEN [i \in 1..Len(items) |->
             IF items[i].key = k THEN Item(k, v) ELSE items[i]]
    ELSE Append(items, Item(k, v))

\* A close that does nothing.
NotClosed(counts, vals) == counts

\* _safe_close (lines 180-187) on each of the values: obj.close() is called.
SafeClose(counts, vals) ==
    [v \in DOMAIN counts |-> IF v \in vals THEN counts[v] + 1 ELSE counts[v]]

Caller(pc, k, loaded, returned) ==
    [pc |-> pc, key |-> k, loaded |-> loaded, ret |-> returned]

ValIdle ==
    /\ cacheItems = <<>>
    /\ itemsMaxsize = 1
    /\ closedTimes = [v \in 1..MaxValues |-> 0]
    /\ evictedVals = {}
    /\ callers = [th \in ValThreads |-> Caller("idle", "-", NoValue, NoValue)]
    /\ nextVal = 1

\* LRUCache(maxsize) (lines 46-62) and two threads about to call get_or_load.
ValInit ==
    /\ cacheItems = <<>>
    /\ itemsMaxsize \in 1..2
    /\ closedTimes = [v \in 1..MaxValues |-> 0]
    /\ evictedVals = {}
    /\ callers = [th \in ValThreads |-> Caller("idle", "-", NoValue, NoValue)]
    /\ nextVal = 1

\* The eviction loop (lines 129-132 and 174-177) on the items c0: the oldest
\* entries are popped and each popped value is closed.
ValEvictTo(c0) ==
    /\ cacheItems' = Kept(c0, itemsMaxsize)
    /\ closedTimes' = SafeClose(closedTimes, ValsOf(Evicted(c0, itemsMaxsize)))
    /\ evictedVals' = evictedVals \cup ValsOf(Evicted(c0, itemsMaxsize))

\* LRUCache.put (lines 112-132) of a new value object.
ValPut(k) ==
    /\ nextVal <= MaxValues
    /\ ValEvictTo(ItemAssign(IF k \in KeysOf(cacheItems)
                             THEN ItemToEnd(cacheItems, k) ELSE cacheItems,
                             k, nextVal))
    /\ nextVal' = nextVal + 1
    /\ UNCHANGED <<itemsMaxsize, callers>>
    /\ UNCHANGED nonValVars

\* get_or_load, the first locked block (lines 156-160): a hit returns the
\* cached value; after a miss the lock is released.
ValGetOrLoadLookup(th, k) ==
    /\ callers[th].pc = "idle"
    /\ IF k \in KeysOf(cacheItems)
       THEN /\ cacheItems' = ItemToEnd(cacheItems, k)
            /\ callers' = [callers EXCEPT ![th] =
                   Caller("returned", k, NoValue, ValueOf(cacheItems, k))]
       ELSE /\ callers' = [callers EXCEPT ![th] =
                   Caller("loading", k, NoValue, NoValue)]
            /\ UNCHANGED cacheItems
    /\ UNCHANGED <<itemsMaxsize, closedTimes, evictedVals, nextVal>>
    /\ UNCHANGED nonValVars

\* value = loader() (line 163), outside the lock: a new value object.
ValLoader(th) ==
    /\ callers[th].pc = "loading"
    /\ nextVal <= MaxValues
    /\ callers' = [callers EXCEPT ![th] =
           Caller("loaded", callers[th].key, nextVal, NoValue)]
    /\ nextVal' = nextVal + 1
    /\ UNCHANGED <<cacheItems, itemsMaxsize, closedTimes, evictedVals>>
    /\ UNCHANGED nonValVars

\* get_or_load, the second locked block (lines 165-178): when the key has
\* been inserted meanwhile the loaded value is closed and the cached one is
\* returned; otherwise the loaded value is inserted, the eviction loop runs
\* and the loaded value is returned.
ValGetOrLoadStore(th) ==
    /\ callers[th].pc = "loaded"
    /\ LET k == callers[th].key
           value == callers[th].loaded
       IN IF k \in KeysOf(cacheItems)
          THEN /\ closedTimes' = SafeClose(closedTimes, {value})
               /\ callers' = [callers EXCEPT ![th] =
                      Caller("returned", k, value, ValueOf(cacheItems, k))]
               /\ UNCHANGED <<cacheItems, evictedVals>>
          ELSE /\ ValEvictTo(Append(cacheItems, Item(k, value)))
               /\ callers' = [callers EXCEPT ![th] =
                      Caller("returned", k, value, value)]
    /\ UNCHANGED <<itemsMaxsize, nextVal>>
    /\ UNCHANGED nonValVars

ValNext ==
    \/ \E k \in ValKeys : ValPut(k)
    \/ \E th \in ValThreads, k \in ValKeys : ValGetOrLoadLookup(th, k)
    \/ \E th \in ValThreads : ValLoader(th)
    \/ \E th \in ValThreads : ValGetOrLoadStore(th)

(***************************************************************************)
(* MainWindow: favourites and their downloads                              *)
(***************************************************************************)
FavPosts == {"p1", "p2"}

\* The favourites whose stored file_url is not empty and passes
\* url_validator.validate.
StoredUrlValid == {"p1"}

FavIdle ==
    /\ favorites = {}
    /\ downloaded_ids = {}
    /\ finalFiles = {}
    /\ tmpFiles = {}
    /\ favActive = {}
    /\ favResuming = {}
    /\ startup = "init"

\* MainWindow.__init__ (lines 244-266): favorites.json is loaded, the download
\* folders are scanned for .tmp files (_scan_tmp_files, 404-439) and for
\* final files (_build_downloaded_ids, 441-468).
FavInit ==
    /\ favorites \in SUBSET FavPosts
    /\ finalFiles \in SUBSET FavPosts
    /\ tmpFiles \in SUBSET FavPosts
    /\ downloaded_ids = finalFiles
    /\ favActive = {}
    /\ favResuming = {}
    /\ startup = "init"

\* _resume_tmp_downloads (lines 517-534), one second after the start:
\* submit_resume for every .tmp file found by the scan; submit_resume returns
\* at once for a post that has a download task.
ResumeTmpDownloads ==
    /\ startup = "init"
    /\ favResuming' = favResuming \cup (tmpFiles \ favActive)
    /\ startup' = "resumed"
    /\ UNCHANGED <<favorites, downloaded_ids, finalFiles, tmpFiles, favActive>>
    /\ UNCHANGED nonFavVars

\* _check_missing_favorites (lines 536-566): the favourites that are not in
\* downloaded_ids.
CheckMissingFavorites == favorites \ downloaded_ids

\* _recover_missing_favorites (lines 568-644), two seconds after the start or
\* on the C key: submit_download for a missing favourite whose stored
\* file_url validates, submit_resume for the others.
RecoverMissingFavorites ==
    /\ startup \in {"resumed", "recovered"}
    /\ favActive' = favActive \cup (CheckMissingFavorites \cap StoredUrlValid)
    /\ favResuming' =
           favResuming \cup ((CheckMissingFavorites \ StoredUrlValid) \ favActive)
    /\ startup' = "recovered"
    /\ UNCHANGED <<favorites, downloaded_ids, finalFiles, tmpFiles>>
    /\ UNCHANGED nonFavVars

\* toggle_like (lines 1852-1890) on the post that is shown: a favourite is
\* removed from favorites and downloaded_ids; another post is added to both
\* and submit_download is called, which returns at once for a post that has
\* a download task.
ToggleLike(pid) ==
    /\ IF pid \in favorites
       THEN /\ favorites' = favorites \ {pid}
            /\ downloaded_ids' = downloaded_ids \ {pid}
            /\ UNCHANGED favActive
       ELSE /\ favorites' = favorites \cup {pid}
            /\ downloaded_ids' = downloaded_ids \cup {pid}
            /\ favActive' = favActive \cup {pid}
    /\ UNCHANGED <<finalFiles, tmpFiles, favResuming, startup>>
    /\ UNCHANGED nonFavVars

\* do_resume (download_manager.py lines 314-349): the post is fetched from the
\* API and submit_download is called, or the fetch fails and on_error is
\* called; _on_download_error_slot (main_window.py 1932-1940) only logs.
DoResume(pid, fetched) ==
    /\ pid \in favResuming
    /\ favResuming' = favResuming \ {pid}
    /\ favActive' = IF fetched THEN favActive \cup {pid} ELSE favActive
    /\ UNCHANGED <<favorites, downloaded_ids, finalFiles, tmpFiles, startup>>
    /\ UNCHANGED nonFavVars

\* _write_chunks (download_manager.py line 526) opens the .tmp file.
TaskOpensTmp(pid) ==
    /\ pid \in favActive
    /\ pid \notin tmpFiles
    /\ tmpFiles' = tmpFiles \cup {pid}
    /\ UNCHANGED <<favorites, downloaded_ids, finalFiles, favActive,
                   favResuming, startup>>
    /\ UNCHANGED nonFavVars

\* The download completes: the .tmp file is renamed to the final file,
\* _finish_download drops the task and _on_download_complete_slot
\* (main_window.py 1906-1919) adds the post to downloaded_ids.
TaskCompletes(pid) ==
    /\ pid \in favActive
    /\ pid \in tmpFiles
    /\ tmpFiles' = tmpFiles \ {pid}
    /\ finalFiles' = finalFiles \cup {pid}
    /\ favActive' = favActive \ {pid}
    /\ downloaded_ids' = downloaded_ids \cup {pid}
    /\ UNCHANGED <<favorites, favResuming, startup>>
    /\ UNCHANGED nonFavVars

\* The download fails or is cancelled: _finish_download (download_manager.py
\* lines 619-668) drops the task and calls on_error, which only logs; a .tmp
\* file that was opened stays.
TaskFailsOrCancelled(pid) ==
    /\ pid \in favActive
    /\ favActive' = favActive \ {pid}
    /\ UNCHANGED <<favorites, downloaded_ids, finalFiles, tmpFiles,
                   favResuming, startup>>
    /\ UNCHANGED nonFavVars

FavNext ==
    \/ ResumeTmpDownloads
    \/ RecoverMissingFavorites
    \/ \E pid \in FavPosts : ToggleLike(pid)
    \/ \E pid \in FavPosts, fetched \in BOOLEAN : DoResume(pid, fetched)
    \/ \E pid \in FavPosts : TaskOpensTmp(pid)
    \/ \E pid \in FavPosts : TaskCompletes(pid)
    \/ \E pid \in FavPosts : TaskFailsOrCancelled(pid)

(***************************************************************************)
(* BackupManager.restore_backup                                            *)
(***************************************************************************)
\* The first two entries of BACKUP_FILES (lines 71-77).
BACKUP_FILES == <<"viewed", "favorites">>

BackupKeys == {BACKUP_FILES[i] : i \in 1..Len(BACKUP_FILES)}

Contents == {"v0", "v1"}

NoFiles == [key \in BackupKeys |-> "absent"]

RestoreIdle ==
    /\ stateFiles = NoFiles
    /\ snapshots = NoFiles
    /\ backupData = NoFiles
    /\ restored = {}
    /\ restorePc = "idle"
    /\ fileIndex = 1

\* The state files on disk when a BackupManager is made.
RestoreInit ==
    /\ stateFiles \in [BackupKeys -> {"absent", "v0"}]
    /\ snapshots = NoFiles
    /\ backupData = NoFiles
    /\ restored = {}
    /\ restorePc = "idle"
    /\ fileIndex = 1

\* restore_backup up to line 397: a backup file that fails a check makes the
\* call return False with nothing written; otherwise data is what it holds.
RestoreBegin(valid, data) ==
    /\ restorePc = "idle"
    /\ IF valid
       THEN /\ backupData' = data
            /\ snapshots' = NoFiles
            /\ restored' = {}
            /\ restorePc' = "backup_current"
            /\ fileIndex' = 1
       ELSE UNCHANGED <<backupData, snapshots, restored, restorePc, fileIndex>>
    /\ UNCHANGED stateFiles
    /\ UNCHANGED nonRestoreVars

\* _backup_current (lines 478-506): when backup_temp cannot be made the
\* method returns; otherwise every state file that exists is copied to
\* backup_temp/<key>_<timestamp>.bak, and a copy that raises OSError is
\* logged and skipped. copied is the set of keys whose copy succeeds.
BackupCurrent(mkdirOk, copied) ==
    /\ restorePc = "backup_current"
    /\ snapshots' =
           [key \in BackupKeys |->
               IF mkdirOk /\ stateFiles[key] # "absent" /\ key \in copied
               THEN stateFiles[key] ELSE "absent"]
    /\ restorePc' = "restoring"
    /\ UNCHANGED <<stateFiles, backupData, restored, fileIndex>>
    /\ UNCHANGED nonRestoreVars

\* One turn of the loop of restore_backup (lines 406-426): a key the backup
\* does not hold is skipped; otherwise atomic_write replaces the state file,
\* and a write that raises is logged. After the last file the call returns.
RestoreFile(written) ==
    /\ restorePc = "restoring"
    /\ fileIndex <= Len(BACKUP_FILES)
    /\ LET key == BACKUP_FILES[fileIndex] IN
       IF backupData[key] # "absent" /\ written
       THEN /\ stateFiles' = [stateFiles EXCEPT ![key] = backupData[key]]
            /\ restored' = restored \cup {key}
       ELSE UNCHANGED <<stateFiles, restored>>
    /\ fileIndex' = fileIndex + 1
    /\ restorePc' = IF fileIndex = Len(BACKUP_FILES) THEN "idle" ELSE "restoring"
    /\ UNCHANGED <<snapshots, backupData>>
    /\ UNCHANGED nonRestoreVars

RestoreNext ==
    \/ \E valid \in BOOLEAN, data \in [BackupKeys -> Contents \cup {"absent"}] :
          RestoreBegin(valid, data)
    \/ \E mkdirOk \in BOOLEAN, copied \in SUBSET BackupKeys :
          BackupCurrent(mkdirOk, copied)
    \/ \E written \in BOOLEAN : RestoreFile(written)

(***************************************************************************)
(* Specifications                                                          *)
(***************************************************************************)
Init ==
    DmInit /\ BusInit /\ CacheIdle /\ StoreIdle /\ PreIdle
    /\ DlIdle /\ CtIdle /\ SmInit /\ UvIdle
    /\ SqIdle
    /\ FpIdle
    /\ LkIdle
    /\ ValIdle
    /\ FavIdle
    /\ RestoreIdle

InitCache ==
    DmInit /\ BusInit /\ CacheInit /\ StoreIdle /\ PreIdle
    /\ DlIdle /\ CtIdle /\ SmInit /\ UvIdle
    /\ SqIdle
    /\ FpIdle
    /\ LkIdle
    /\ ValIdle
    /\ FavIdle
    /\ RestoreIdle

InitVal ==
    DmInit /\ BusInit /\ CacheIdle /\ StoreIdle /\ PreIdle
    /\ DlIdle /\ CtIdle /\ SmInit /\ UvIdle
    /\ SqIdle
    /\ FpIdle
    /\ LkIdle
    /\ ValInit
    /\ FavIdle
    /\ RestoreIdle

InitFav ==
    DmInit /\ BusInit /\ CacheIdle /\ StoreIdle /\ PreIdle
    /\ DlIdle /\ CtIdle /\ SmInit /\ UvIdle
    /\ SqIdle
    /\ FpIdle
    /\ LkIdle
    /\ ValIdle
    /\ FavInit
    /\ RestoreIdle

InitRestore ==
    DmInit /\ BusInit /\ CacheIdle /\ StoreIdle /\ PreIdle
    /\ DlIdle /\ CtIdle /\ SmInit /\ UvIdle
    /\ SqIdle
    /\ FpIdle
    /\ LkIdle
    /\ ValIdle
    /\ FavIdle
    /\ RestoreInit

InitMem ==
    DmInit /\ BusInit /\ MemInit /\ StoreIdle /\ PreIdle
    /\ DlIdle /\ CtIdle /\ SmInit /\ UvIdle
    /\ SqIdle
    /\ FpIdle
    /\ LkIdle
    /\ ValIdle
    /\ FavIdle
    /\ RestoreIdle

InitDl ==
    DmInit /\ BusInit /\ CacheIdle /\ StoreIdle /\ PreIdle
    /\ DlInit /\ CtIdle /\ SmInit /\ UvIdle
    /\ SqIdle
    /\ FpIdle
    /\ LkIdle
    /\ ValIdle
    /\ FavIdle
    /\ RestoreIdle

InitUv ==
    DmInit /\ BusInit /\ CacheIdle /\ StoreIdle /\ PreIdle
    /\ DlIdle /\ CtIdle /\ SmInit /\ UvInit
    /\ SqIdle
    /\ FpIdle
    /\ LkIdle
    /\ ValIdle
    /\ FavIdle
    /\ RestoreIdle

InitStore ==
    DmInit /\ BusInit /\ CacheIdle /\ StoreInit /\ PreIdle
    /\ DlIdle /\ CtIdle /\ SmInit /\ UvIdle
    /\ SqIdle
    /\ FpIdle
    /\ LkIdle
    /\ ValIdle
    /\ FavIdle
    /\ RestoreIdle

\* The DownloadManager.
Next == DmNext

Spec == Init /\ [][Next]_vars

\* The pool's threads and the submitting threads are scheduled fairly: a
\* step of theirs that stays possible is eventually taken.
FairSpec ==
    /\ Init
    /\ [][Next]_vars
    /\ WF_vars(WorkerStart)
    /\ \A r \in 1..MaxResumes : WF_vars(ResumeFetch(r))
    /\ \A t \in 1..MaxTasks : WF_vars(TaskStep(t))

\* The EventBus.
BusSpec == Init /\ [][BusNext]_vars

\* An LRUCache used by several threads.
CacheSpec == InitCache /\ [][CacheNext]_vars

\* A MemoryAwareLRUCache that is only put into.
MemSpec == InitMem /\ [][MemNext]_vars

\* A MemoryAwareLRUCache on which every operation is used.
MemOpsSpec == InitMem /\ [][MemOpsNext]_vars

\* One thread saving and loading a JSON file whose lock others may hold.
StoreSpec == InitStore /\ [][StoreNext]_vars

\* One download task from _execute_download to _finish_download, against a
\* server that holds Content.
DlSpec == InitDl /\ [][DlNext]_vars

\* The same, the pool thread being scheduled fairly; every request and
\* every read of the stream returns or raises within its timeout.
DlFairSpec == InitDl /\ [][DlNext]_vars /\ WF_vars(DlWorker)

\* The TurboPreloader: callers, the scheduler thread, the pool's workers and
\* the delayed-retry threads, each thread of the preloader being scheduled
\* fairly.
PreFairSpec ==
    /\ Init
    /\ [][PreNext]_vars
    /\ WF_vars(SchedulePop)
    /\ WF_vars(LoadStart)
    /\ \A p \in PrePosts :
          /\ WF_vars(\E outcome \in {"ok", "permanent", "retryable"} :
                        LoadOne(p, outcome))
          /\ WF_vars(LoadFinally(p))
          /\ WF_vars(DelayedRetry(p))

\* The preloader while tasks are cancelled and the preloader shut down.
PreStopSpec == Init /\ [][PreStopNext]_vars

\* The callers of cancel_download and cancel_all, while tasks come and go.
CtSpec == Init /\ [][CtNext]_vars

\* Threads that call the SessionManager's methods and close().
SmSpec == Init /\ [][SmNext]_vars

\* validate applied to a parsed URL and a DNS answer.
UvSpec == InitUv /\ [][UvNext]_vars

\* The preloader's heap between the enqueuing calls and the scheduler.
SqSpec == Init /\ [][SqNext]_vars

\* Submissions of one post_id, one after the other.
FpSpec == Init /\ [][FpNext]_vars

\* The manager's lock while callbacks and subscribers call back into it.
LkSpec == Init /\ [][LkNext]_vars

\* An LRUCache of closable values used by two get_or_load callers and puts.
ValSpec == InitVal /\ [][ValNext]_vars

\* The MainWindow's favourites from the start of the application on.
FavSpec == InitFav /\ [][FavNext]_vars

\* Restores of backups, one after the other.
RestoreSpec == InitRestore /\ [][RestoreNext]_vars

(***************************************************************************)
(* Claims about the DownloadManager                                        *)
(***************************************************************************)
\* The tasks of post p that are registered and not yet finished.
ActiveTasks(p) ==
    {t \in TaskIds : tasks[t].pid = p /\ tasks[t].st \in PreFinish}

\* C1: at every instant there is at most one active download task per
\* post_id, the active set and the task map name exactly that task, and a
\* submit_download for a post_id that has an active task returns None.
C1_OneActiveTaskPerPost ==
    /\ \A p \in Posts :
          /\ Cardinality(ActiveTasks(p)) <= 1
          /\ (p \in active_downloads) <=> (ActiveTasks(p) # {})
          /\ (taskOf[p] # 0) <=> (ActiveTasks(p) = {taskOf[p]})
          /\ (taskOf[p] = 0) <=> (ActiveTasks(p) = {})
    /\ ret.existed => ret.token = 0

\* A submit_download has just been refused for a post whose task is active.
C1_Witness ==
    /\ ret.existed
    /\ ret.token = 0
    /\ \E p \in Posts : Cardinality(ActiveTasks(p)) = 1

TerminalTypes == {"COMPLETED", "FAILED", "CANCELLED"}

\* The positions of the terminal events published by task t.
TerminalEvents(t) ==
    LET log == events[tasks[t].pid] IN
    {i \in 1..Len(log) : log[i].task = t /\ log[i].type \in TerminalTypes}

\* C2: a task that has run _finish_download to its end has published
\* exactly one terminal event and has invoked exactly one of the callbacks it
\* was given, once (on_complete with COMPLETED, on_error otherwise); a task
\* that has not has published none.
C2_ExactlyOneTerminalEvent ==
    \A t \in TaskIds :
        LET n == Cardinality(TerminalEvents(t))
            log == events[tasks[t].pid]
        IN IF tasks[t].st = "done"
           THEN /\ n = 1
                /\ \A i \in TerminalEvents(t) :
                      (log[i].type = "COMPLETED") <=> tasks[t].success
                /\ tasks[t].cb =>
                      /\ tasks[t].nComplete + tasks[t].nError = 1
                      /\ (tasks[t].nComplete = 1) <=> tasks[t].success
                /\ ~tasks[t].cb =>
                      tasks[t].nComplete + tasks[t].nError = 0
           ELSE /\ n = 0
                /\ tasks[t].nComplete + tasks[t].nError = 0

\* A cancelled task with callbacks is over: CANCELLED published, on_error
\* called once.
C2_Witness ==
    \E t \in TaskIds :
        /\ tasks[t].st = "done"
        /\ tasks[t].cb
        /\ tasks[t].nError = 1
        /\ \E i \in TerminalEvents(t) :
              events[tasks[t].pid][i].type = "CANCELLED"

\* C3: for every post_id the lifecycle events appear as STARTED, terminal,
\* STARTED, terminal, ...: each terminal event is the one of the task whose
\* STARTED precedes it, and the next task's STARTED comes after it.
C3_LifecycleOrder ==
    \A p \in Posts :
        \A i \in 1..Len(events[p]) :
            IF i % 2 = 1
            THEN events[p][i].type = "STARTED"
            ELSE /\ events[p][i].type \in TerminalTypes
                 /\ events[p][i].task = events[p][i - 1].task

\* C4: every registered task eventually finishes: its terminal event is
\* published and it has left the active map.
C4_EveryTaskTerminates ==
    \A t \in 1..MaxTasks :
        (t \in TaskIds) ~>
            (/\ t \in TaskIds
             /\ tasks[t].st = "done"
             /\ taskOf[tasks[t].pid] # t)

\* C35: no submit_download and no submit_resume finds the executor shut
\* down once it has registered its task or counted its resume job: after
\* shutdown a call raises nothing and leaves nothing that will never run.
C35_NoSubmitRejectedAfterShutdown ==
    /\ \A t \in TaskIds : tasks[t].st # "rejected"
    /\ \A r \in 1..Len(resumes) : resumes[r].st # "rejected"

\* C10: a token that is set stays set, whatever step comes next.
C10_CancellationMonotonic ==
    [][\A t \in TaskIds : tasks[t].cancelled => tasks'[t].cancelled]_vars

\* A task whose token was set during a retry wait has gone through the
\* rest of its life and a shutdown, and the token is still set.
C10_Witness ==
    \E t \in TaskIds :
        /\ tasks[t].cancelled
        /\ tasks[t].attempt > 0
        /\ tasks[t].st = "done"
        /\ shutdownPc = "down"

(***************************************************************************)
(* Claims about the EventBus                                               *)
(***************************************************************************)
\* C5: once a dispose() call on a token has returned, no invocation of that
\* subscription's handler begins.
C5_NoCallAfterDispose == lateCalls = {}

\* C14: unsubscribe_all(owner), for every owner string subscribe accepts,
\* leaves no subscription of that owner, returns the number it removed and
\* leaves the subscriptions of the other owners as they were.
C14_UnsubscribeAllRemovesOwner ==
    /\ lastUnsub.left = 0
    /\ lastUnsub.ret = lastUnsub.had
    /\ lastUnsub.othersKept

\* The error total counts the callbacks that raised.
RECURSIVE RaisedIn(_)
RaisedIn(n) ==
    IF n = 0 THEN 0 ELSE pubs[n].errors + RaisedIn(n - 1)

\* C37: between calls, a token is active exactly when its subscription is
\* registered in the bus.
C37_ActiveIffRegistered ==
    \A id \in TokenIds :
        tokens[id].pc = "idle" =>
            (tokens[id].active <=>
                \E k \in Kinds : InSeq(subscribers[k], id))

\* C15: a publish invokes the handlers registered for the kind when it
\* began, in the order of their subscription and each once, whether or not
\* earlier ones raised; every handler that raised is in the error total, and
\* the call returns the number that did not raise.
C15_PublishCallsAllInOrder ==
    /\ \A i \in 1..Len(pubs) :
          LET pub == pubs[i] IN
          /\ \A a, b \in 1..Len(pub.snap) : a < b => pub.snap[a] < pub.snap[b]
          /\ \A id \in TokenIds :
                InSeq(pub.snap, id) => tokens[id].kind = pub.kind
          /\ pub.idx <= Len(pub.snap) + 1
          /\ pub.called = SubSeq(pub.snap, 1, Len(pub.called))
          /\ pub.st = "done" =>
                /\ pub.called = pub.snap
                /\ pub.delivered = Len(pub.snap) - pub.errors
    /\ stats.total_errors = RaisedIn(Len(pubs))

\* A publish to two handlers is over: both raised, and the second one was
\* invoked after the first had raised.
C15_Witness ==
    \E i \in 1..Len(pubs) :
        /\ pubs[i].st = "done"
        /\ Len(pubs[i].snap) = 2
        /\ pubs[i].errors = 2
        /\ pubs[i].called = pubs[i].snap

(***************************************************************************)
(* Claims about the caches                                                 *)
(***************************************************************************)
\* C6 as stated: after every operation size() <= maxsize, and every eviction
\* takes the least recently touched key, where a key is touched when it is
\* inserted, updated by put, or returned from the cache by get or by
\* get_or_load.
C6_EvictsLeastRecentlyTouched ==
    /\ Len(cache) <= maxsize
    /\ lruTouched

\* C6 as amended: the same, where get_or_load touches a key only when its
\* first lookup finds it; the cache order is then the order of last touch.
C6_EvictsLeastRecentlyCounted ==
    /\ Len(cache) <= maxsize
    /\ lruCounted
    /\ cache = lastCounted

\* A put into a full cache has just evicted, after a get_or_load returned a
\* key that another thread had inserted while its loader ran.
C6_Witness ==
    /\ Len(cache) = maxsize
    /\ lastEvicted # <<>>
    /\ loading = [th \in Loaders |-> "-"]
    /\ lastTouched # lastCounted

\* C7: after a put, size() <= maxsize and the byte total is within
\* max_memory, unless the value put is alone larger than max_memory, and
\* then it is the sole entry of the cache.
C7_BudgetOrSoleEntry ==
    lastPut.key # "-" =>
        IF lastPut.size > max_memory
        THEN cache = <<lastPut.key>>
        ELSE Len(cache) <= maxsize /\ current_memory <= max_memory

\* C36: in MemoryAwareLRUCache the tracked byte total (_current_memory, which
\* stats() reports as memory_mb) is the sum of the recorded sizes of the
\* entries in the cache, and is 0 when the cache is empty.
C36_TrackedBytesMatchEntries ==
    /\ current_memory = RecordedBytes(cache, item_sizes)
    /\ (cache = <<>> => current_memory = 0)

(***************************************************************************)
(* Claims about the atomic store                                           *)
(***************************************************************************)
\* C8: when an atomic write has failed or the process has crashed inside
\* it, the target file holds what it held before the write, and after a
\* reported failure the temp file is gone.
C8_FailureLeavesTargetIntact ==
    /\ awOutcome \in {"failed", "crashed"} => dst = prior
    /\ awOutcome = "failed" => tmp = Absent

\* The values JSON has a type of its own for: a tuple comes back from a
\* file as a list and an int key as a str, and they are not among them.
JsonSerialisable(v) == v.t # "tuple" /\ v.kt # "int"

C11_EveryPostSettles ==
    \A p \in PrePosts : (p \in owed) ~> (p \notin owed)

\* C12: once preload_immediate has been called for a post that waits in
\* the heap at PREFETCH, none of the other PREFETCH tasks that waited with
\* it is dispatched before it.
C12_ImmediateOvertakesPrefetch ==
    \A i \in 1..Len(dispatched) :
        dispatched[i] \in promoted.rivals =>
            \E j \in 1..(i - 1) : dispatched[j] = promoted.post

\* How many tasks of a post the heap holds.
TasksOf(heap, post_id) ==
    Cardinality({i \in 1..Len(heap) : heap[i].post_id = post_id})

\* C26: a call of preload_batch enqueues no task for a post that is
\* cached, pending or in progress, and the tasks it enqueues and the posts
\* it adds to the skipped total are together the posts it was given.
C26_EnqueuedPlusSkipped ==
    [][\A posts \in StopBatches :
          EnqueueBatch(posts, PRIORITY_PREFETCH) =>
              /\ \A i \in 1..Len(posts) :
                    \/ ~ \/ posts[i] \in cached
                          \/ IsPending(pending, posts[i])
                          \/ posts[i] \in in_progress
                    \/ TasksOf(queue', posts[i]) = TasksOf(queue, posts[i])
              /\ (Len(queue') - Len(queue))
                    + (total_skipped' - total_skipped) = Len(posts)]_vars

\* C27: every task in the heap has an entry in the pending map for its
\* post.
C27_HeapTasksArePending ==
    \A p \in InHeap(queue) : IsPending(pending, p)

\* C29: a post has at most max_retries retries counted; a fetch that fails
\* for good (a permanent error, or a retryable one after max_retries
\* retries) starts no retry and calls on_failed once; a retry puts the
\* task back at PREFETCH + 10; and every retry that was started leads to
\* another fetch of the post.
C29_RetriesThenOnFailedOnce ==
    /\ [](\A p \in PrePosts : retry_counts[p] <= PreloadMaxRetries)
    /\ [][\A p \in PrePosts :
            /\ (/\ p \notin cached
                /\ \/ LoadOne(p, "permanent")
                   \/ /\ LoadOne(p, "retryable")
                      /\ retry_counts[p] = PreloadMaxRetries)
                  => /\ retryThreads' = retryThreads
                     /\ onFailedCalls'[p] = onFailedCalls[p] + 1
            /\ (DelayedRetry(p) /\ queue' # queue)
                  => pending'[p] = PRIORITY_PREFETCH + 10]_vars
    /\ \A p \in PrePosts : (retryThreads[p] > 0) ~> (loadSt[p] = "loading")

\* The sample_url of the posts: that of p2 is not an https URL of an
\* allowed host.
SampleUrl(post_id) ==
    IF post_id = "p2"
    THEN [scheme |-> "http", host |-> Host(<<"notyande", "re">>, NoAddress),
          port |-> ""]
    ELSE [scheme |-> "https", host |-> Host(<<"files", "yande", "re">>, NoAddress),
          port |-> ""]

\* C31: a post whose URL the validator does not accept is never fetched:
\* no response for it is ever put in the cache.
C31_OnlyValidatedUrlsFetched ==
    [][\A p \in PrePosts :
          (\A answer \in DnsAnswers : Validate(SampleUrl(p), answer) # "True")
              => (p \in cached' => p \in cached)]_vars

\* C38: a post that cancel or clear_pending was called for, and that no
\* preload_* call has named since, is not dispatched to a worker.
C38_RevokedPostNotDispatched ==
    [][\A p \in revoked :
          loadSt'[p] = "submitted" => loadSt[p] = "submitted"]_vars

\* C40: a post has at most one task in the heap, and the task the
\* scheduler is about to dispatch is never of a post that a worker has.
C40_OneTaskOneWorkerPerPost ==
    /\ \A p \in PrePosts : TasksOf(queue, p) <= 1
    /\ (~shutdown /\ queue # <<>>) =>
          loadSt[queue[1].post_id] \notin {"submitted", "loading"}

\* C30: a worker that was fetching a post when the preloader was shut down
\* or cancel was called for the post does not put the post in the cache.
C30_StoppedFetchCachesNothing ==
    [][\A p \in stopped : p \in cached' => p \in cached]_vars

(***************************************************************************)
(* Claims about one download task                                          *)
(***************************************************************************)
\* Every GET sent while the tmp file held k > 0 bytes carried
\* Range: bytes=k-, and a completed task has published one event,
\* DOWNLOAD_COMPLETED.
ResumesFromTmpSize ==
    /\ lastRequest.range = lastRequest.onDisk
    /\ (dlPc = "done" /\ dlSuccess) => published = <<"COMPLETED">>

\* C13 as stated: the next attempt after one that left k > 0 bytes asks for
\* bytes=k-, and the final file of every completed download is the server's
\* content, byte for byte.
C13_ResumedFileIsComplete ==
    /\ ResumesFromTmpSize
    /\ (dlPc = "done" /\ dlSuccess /\ leftover.size > 0) =>
          path = File(Content)

\* C13 as amended: the same for a download whose last response declared
\* the length of its body as Content-Length (or that a 416 ended); the file
\* of any other resumed download is a prefix of the content.
C13_VerifiedFileIsComplete ==
    /\ ResumesFromTmpSize
    /\ (dlPc = "done" /\ dlSuccess /\ leftover.size > 0) =>
          /\ \/ completedBy = "416"
             \/ /\ completedBy = "verified"
                /\ context.total_size = chunk_size * Len(Content)
             => path = File(Content)
          /\ path.exists /\ path.bytes \in Prefixes

\* A download has completed after an attempt that left chunks in the tmp
\* file and a 206 answer to the next request.
C13_Witness ==
    /\ dlPc = "done"
    /\ dlSuccess
    /\ completedBy = "verified"
    /\ leftover.size > 0
    /\ leftover.size < chunk_size * Len(Content)
    /\ leftover.answer = "206"
    /\ path = File(Content)

\* C19: once the disk-space guard has failed, the task sends no further
\* request and the files stay as they were.
C19_GuardFailureIsTerminal ==
    guardFailed.seen =>
        /\ requestsSent = guardFailed.requests
        /\ tmp_path = guardFailed.tmp
        /\ path = guardFailed.path

\* C20: once a check has found the token set, the task sends no further
\* request, the tmp file and the final file stay as they were, and the
\* event published is DOWNLOAD_CANCELLED.
C20_CancelSeenEndsTask ==
    cancelSeen.seen =>
        /\ requestsSent = cancelSeen.requests
        /\ tmp_path = cancelSeen.tmp
        /\ path = cancelSeen.path
        /\ dlPc = "done" => published = <<"CANCELLED">>
        /\ dlPc \notin {"request", "open", "stream", "verify"}

\* A task cancelled at a chunk boundary is over, with bytes in its tmp file.
C20_Witness ==
    /\ cancelSeen.seen
    /\ dlPc = "done"
    /\ published = <<"CANCELLED">>
    /\ tmp_path.exists
    /\ Len(tmp_path.bytes) > 0
    /\ bytes_written > 0

\* C21: a task that ends with DOWNLOAD_COMPLETED after some attempt
\* computed an expected total T has a final file of T to T + 5 KiB bytes.
C21_CompletedSizeWithinExpected ==
    (dlPc = "done" /\ dlSuccess /\ completedBy # "exists") =>
        \A T \in expected :
            /\ T <= Size(path)
            /\ Size(path) <= T + 5 * 1024

\* C22: no GET of the downloader follows a redirect.
C22_NoRedirectFollowed == redirectsFollowed = 0

\* C24: a task without a file_url, or whose file_url the validator rejects
\* or fails on, sends no request and touches no file, ends with
\* DOWNLOAD_FAILED and one on_error call, and does not stay registered.
C24_InvalidUrlFailsCleanly ==
    file_url \in {"empty", "rejected", "raises"} =>
        /\ requestsSent = 0
        /\ context = NewContext /\ bytes_written = 0 /\ completedBy = "-"
        /\ dlPc = "done" => published = <<"FAILED">> /\ on_error_calls = 1
        /\ dlPc \in {"done", "escaped"} => ~registered

\* What C25 says of the attempts: at most max_retries of them, no request
\* after a check that found the token set, and before attempt k + 1 a wait
\* given by WaitOf(k).
BoundedAttempts(WaitOf(_)) ==
    /\ dlAttempt <= MaxRetries - 1
    /\ Len(waits) <= MaxRetries - 1
    /\ \A i \in 1..Len(waits) : waits[i] = WaitOf(i - 1)
    /\ cancelSeen.seen => requestsSent = cancelSeen.requests
    /\ (dlPc = "done" /\ ~dlSuccess) => published # <<"COMPLETED">>

ExactWait(k) == Delay(k)

TenthsWait(k) == 100 * (Delay(k) \div 100)

\* C25 as stated: a task makes at most max_retries attempts, waits
\* min(retry_delay * 2^k, 60) seconds after failed attempt k, makes no
\* attempt after a cancellation seen during the wait, and terminates.
C25_BoundedRetriesExactWait ==
    /\ [](BoundedAttempts(ExactWait))
    /\ <>(dlPc \in {"done", "escaped"})

\* C25 as amended: the same, the wait being min(retry_delay * 2^k, 60)
\* seconds rounded down to a whole number of tenths of a second.
C25_BoundedRetriesTenthsWait ==
    /\ [](BoundedAttempts(TenthsWait))
    /\ <>(dlPc \in {"done", "escaped"})

\* A task has failed after max_retries attempts, the second wait capped at
\* 60 seconds.
C25_Witness ==
    /\ dlPc = "done"
    /\ published = <<"FAILED">>
    /\ dlAttempt = MaxRetries - 1
    /\ requestsSent >= MaxRetries
    /\ waits = <<40000, 60000>>

(***************************************************************************)
(* Claims about the cancel calls                                           *)
(***************************************************************************)
\* C18: cancel_download returns true (1) exactly when it set a token,
\* cancel_all returns the number of tokens it set, and no call alters the
\* reason of a token that was already set.
C18_CancelReturnsWhatChanged ==
    /\ lastCancel.ret = lastCancel.changed
    /\ lastCancel.reasonsKept

(***************************************************************************)
(* Claims about the SessionManager                                         *)
(***************************************************************************)
\* C16: once close() has returned, no public method gets as far as its
\* locked part (each fails with the session-closed error instead), and the
\* requests.Session is closed once however often close() is called.
C16_NothingRunsAfterClose ==
    /\ ranAfterClose = {}
    /\ sessionCloses <= 1

(***************************************************************************)
(* Claims about the UrlValidator                                           *)
(***************************************************************************)
\* C17: validate returns True only for an allowed scheme, an allowed host or
\* a subdomain of one, a port that is not blocked, and a host that neither is
\* nor resolves to a private address; in every other case it returns False,
\* and it never raises.
C17_TrueOnlyIfSafeNeverRaises ==
    verdict # "-" =>
        /\ verdict \in {"True", "False"}
        /\ verdict = "True" =>
              /\ url.scheme \in allowed_schemes
              /\ IsHostAllowed(url.host)
              /\ PortNumber(url.port) \notin BLOCKED_PORTS
              /\ CheckNotPrivate(url.host, dns)

(***************************************************************************)
(* Claims about the order of dispatch                                      *)
(***************************************************************************)
\* C28: the task the scheduler pops comes before every task it leaves in
\* the heap: it has a smaller priority number, or the same and was
\* enqueued earlier.
C28_DispatchInPriorityThenFifoOrder ==
    \A t \in lastPop.left :
        \/ lastPop.task.priority < t.priority
        \/ /\ lastPop.task.priority = t.priority
           /\ lastPop.task.created_at < t.created_at

(***************************************************************************)
(* Claims about the files of a post                                        *)
(***************************************************************************)
\* C23: at most one final file and at most one .tmp file of the post exist
\* across the rating directories.
C23_OneFinalOneTmpPerPost ==
    /\ Cardinality(finals) <= 1
    /\ Cardinality(tmps) <= 1

(***************************************************************************)
(* Claims about the DownloadManager's lock                                 *)
(***************************************************************************)
\* C39: a thread that is about to invoke a callback or to publish an event
\* does not hold the manager's lock, and a thread that is about to take the
\* lock does not hold it already.
C39_NotifiesOutsideLock ==
    \A th \in LkThreads :
        OpOf(th) \in {"callback", "publish", "acquire"} => dmLock # th

\* on_complete / on_error or a subscriber of the terminal event, called by
\* _finish_download, has called cancel_all, which holds the lock.
C39_Witness ==
    /\ Len(frames["worker"]) = 2
    /\ frames["worker"][1].method = "_finish_download"
    /\ frames["worker"][2] = Frame("cancel_all", 2)
    /\ dmLock = "worker"

(***************************************************************************)
(* Claims about the cache's values                                         *)
(***************************************************************************)
\* The number of entries the cache holds for key k.
EntriesFor(items, k) == Cardinality({i \in 1..Len(items) : items[i].key = k})

\* A get_or_load call of thread th returns in this step.
Returns(th) == callers[th].pc # "returned" /\ callers'[th].pc = "returned"

\* C32: when get_or_load races with a put, another get_or_load or an eviction,
\* the cache holds exactly one value for the key when the call returns and
\* the call returns that value, which is not closed; a loaded value that lost
\* the race and every evicted value are closed exactly once; no value is
\* closed twice and no value is closed while it is a cache entry.
C32_RacingLoadsCloseLosersOnce ==
    /\ [](\A v \in 1..MaxValues : closedTimes[v] <= 1)
    /\ [](\A v \in ValsOf(cacheItems) : closedTimes[v] = 0)
    /\ [](\A v \in evictedVals : closedTimes[v] = 1)
    /\ [](\A th \in ValThreads :
             (callers[th].pc = "returned" /\ callers[th].loaded # NoValue
                 /\ callers[th].ret # callers[th].loaded)
                 => closedTimes[callers[th].loaded] = 1)
    /\ [][\A th \in ValThreads :
             Returns(th) =>
                 /\ EntriesFor(cacheItems', callers'[th].key) = 1
                 /\ callers'[th].ret = ValueOf(cacheItems', callers'[th].key)
                 /\ closedTimes'[callers'[th].ret] = 0]_vars

\* Both threads missed the same key; one inserted its value, the other found
\* it on the second check and closed its own; a put has evicted an entry.
C32_Witness ==
    /\ \A th \in ValThreads : callers[th].pc = "returned"
    /\ callers["t1"].key = callers["t2"].key
    /\ callers["t1"].loaded # NoValue
    /\ callers["t2"].loaded # NoValue
    /\ callers["t2"].ret = callers["t1"].loaded
    /\ closedTimes[callers["t2"].loaded] = 1
    /\ evictedVals # {}

(***************************************************************************)
(* Claims about the favourites                                             *)
(***************************************************************************)
\* C33: once startup recovery has run, every post in the favourites map has a
\* final file, or a .tmp partial, or a download task that is queued or
\* active.
C33_FavouriteHasFileOrTask ==
    startup = "recovered" =>
        \A pid \in favorites :
            \/ pid \in finalFiles
            \/ pid \in tmpFiles
            \/ pid \in favActive \cup favResuming

(***************************************************************************)
(* Claims about restore_backup                                             *)
(***************************************************************************)
\* C34: restore_backup overwrites a state file that exists only when the same
\* restore has written a copy of the file's current content to
\* backup_temp/<key>_<timestamp>.bak; without the snapshot the state file is
\* not overwritten.
C34_SnapshotBeforeOverwrite ==
    [][\A key \in BackupKeys :
          (key \in restored' /\ key \notin restored /\ stateFiles[key] # "absent")
              => snapshots[key] = stateFiles[key]]_vars

====
